---- MODULE Spec2Model ----
(***************************************************************************)
(* Conversation / task orchestration core of AionUi: the conversation      *)
(* bridge (request handlers), the task registry (WorkerManage), the        *)
(* interactive task manager (GeminiAgentManager) and the agent running in  *)
(* its worker (GeminiAgent), as one state machine.                         *)
(*                                                                         *)
(* Every request is a call slot p: it is issued once, runs through the     *)
(* suspension points (await) of its handler and ends in "done" with a      *)
(* result.  One JavaScript macrotask is one step.                          *)
(***************************************************************************)
EXTENDS Integers, Sequences, FiniteSets, Bags, TLC

\* ------------------------------------------------------------------ bounds
MaxCalls == 3          \* requests issued in one run
MaxCont == 1           \* continuation rounds of one prompt turn

Calls == 1..MaxCalls
Ids == {"c1", "c2"}    \* conversation ids
MsgIds == {1, 2}       \* msg_id values a client sends
Models == {"M1", "M2"} \* model descriptors
Types == {"gemini", "acp", "codex"}
NoInst == 0            \* "no task" (undefined)
NoConv == [type |-> "none", model |-> "none", workspace |-> "none"]


VARIABLES
  convs,          \* the structured store: id -> conversation (or NoConv)
  legacy,         \* the legacy record store ('chat.history'): id -> conversation (or NoConv)
  migrating,      \* ids whose migration into the structured store is under way
  processConfig,  \* the stored configuration (ProcessConfig): 'mcp.config' and
                  \* 'tools.imageGenerationModel'
  agentConfig,    \* inst -> the configuration its agent was started with
  lastGetWorkspaceAbortController,  \* the call whose getWorkspace built the last
                  \* abort controller (0: the one made at start-up)
  abortedWorkspaceReads,  \* the controllers (named by call) that were aborted
  messages,       \* the persisted messages (a bag: a store may hold an id twice)
  localQueue,     \* the messages handed to addOrUpdateMessage and not yet written
  localWaiters,   \* calls whose nextTickToLocalFinish callback is waiting
  taskList,       \* the registry: a list of [id, inst]
  tasks,          \* inst -> the task object built by call inst
  building,       \* calls that own an in-flight rebuild
  calls,          \* call slot -> its request and position
  turns,          \* call -> the agent-side state of the turn it started
  pendingConfirm, \* inst -> callIds whose tool call awaits approval
  published,      \* the events the latest step republished on responseStream, each
                  \* with the task whose handler republished it
  replies         \* what the requests completed by the latest step returned

vars == <<convs, legacy, migrating, processConfig, agentConfig,
          lastGetWorkspaceAbortController, abortedWorkspaceReads, messages, localQueue, localWaiters, taskList, tasks, building,
          calls, turns, pendingConfirm, published, replies>>

\* the conversation that create saves
NewConv(type, model) == [type |-> type, model |-> model, workspace |-> "w1"]

\* a read of a conversation: the structured store, on miss the legacy store
stored(cs, lg, id) == IF cs[id] # NoConv THEN cs[id] ELSE lg[id]

\* ------------------------------------------------------------- the registry
NoTask == [id |-> "none", type |-> "none", model |-> "none", status |-> "none",
           boot |-> "none", alive |-> FALSE, armed |-> FALSE]

NewTask(conv, id) ==
  [id |-> id, type |-> conv.type, model |-> conv.model, status |-> "none",
   boot |-> "pending", alive |-> TRUE, armed |-> FALSE]

\* the entries registered under id
Entries(list, id) == SelectSeq(list, LAMBDA e : e.id = id)

getTaskById(list, id) ==
  IF Len(Entries(list, id)) = 0 THEN NoInst ELSE Entries(list, id)[1].inst

\* mutant: registers without removing the entry already under the id
buildConversationNoReplace(list, id, inst) ==
  Append(list, [id |-> id, inst |-> inst])

buildConversation(list, id, inst) ==
  Append(SelectSeq(list, LAMBDA e : e.id # id), [id |-> id, inst |-> inst])

killList(list, id) == SelectSeq(list, LAMBDA e : e.id # id)

\* the instances registered under id (all of them, were there several)
InstsOf(list, id) == {Entries(list, id)[k].inst : k \in 1..Len(Entries(list, id))}

\* a killed task: its worker is gone; no lookup returns the object any more, so
\* its status and history prefix are never read again
killTask(t) == [t EXCEPT !.alive = FALSE, !.status = "none", !.armed = FALSE]

killTasks(ts, list, id) ==
  [i \in Calls |-> IF i \in InstsOf(list, id) THEN killTask(ts[i]) ELSE ts[i]]

\* mutant: never finds an in-flight rebuild to join
InflightNone(bs, cs, id) == NoInst

\* the call owning the in-flight rebuild of id, if any
Inflight(bs, cs, id) ==
  IF \E q \in bs : cs[q].cid = id
  THEN CHOOSE q \in bs : cs[q].cid = id
  ELSE NoInst

\* ------------------------------------------------------------------ calls
NoCall == [op |-> "none", pc |-> "idle", cid |-> "none", mid |-> 0,
           task |-> NoInst, owner |-> NoInst]
Rounds == 0..MaxCont
NoTurn == [inst |-> NoInst, mid |-> 0, phase |-> [r \in Rounds |-> "none"],
           tool |-> [r \in Rounds |-> "none"], prompt |-> [r \in Rounds |-> 0],
           fresh |-> [r \in Rounds |-> FALSE], signal |-> [r \in Rounds |-> "none"]]

\* the abort controller made for a round: "held" while it is the one the agent
\* holds (this.abortController), "released" once a later one took its place,
\* "aborted" once stop() aborted it
release(t, i) ==
  IF t.inst = i
  THEN [t EXCEPT !.signal = [n \in Rounds |-> IF t.signal[n] = "held" THEN "released"
                                              ELSE t.signal[n]]]
  ELSE t

\* createAbortController of the agent of task i, for round r of the turn of call p
createAbortController(ts, i, p, r) ==
  [q \in Calls |-> IF q = p THEN [release(ts[q], i) EXCEPT !.signal[r] = "held"]
                   ELSE release(ts[q], i)]

\* GeminiAgent.stop: the controller the agent holds is aborted
abort(t, i) ==
  IF t.inst = i
  THEN [t EXCEPT !.signal = [n \in Rounds |-> IF t.signal[n] = "held" THEN "aborted"
                                              ELSE t.signal[n]]]
  ELSE t

\* ------------------------------------------------- the stored configuration
Servers == {"s1", "s2"}   \* names of the configured tool-provider servers

\* what start() gets of a server: command, args, env and description
Descriptor(server) == [command |-> server.command]
NoDescriptor == [command |-> "none"]

\* mutant: every enabled and connected server is passed on, whatever its transport
usableAnyTransport(server) == server.enabled /\ server.status = "connected"

\* the servers getMcpServers passes on
usable(server) ==
  server.enabled /\ server.status = "connected" /\ server.transport = "stdio"

\* the forEach of getMcpServers over the first n servers: mcpConfig[server.name]
\* is assigned for every usable server, a later one replacing an earlier one
RECURSIVE mcpConfigOf(_, _)
mcpConfigOf(list, n) ==
  IF n = 0 THEN [s \in Servers |-> NoDescriptor]
  ELSE LET done == mcpConfigOf(list, n - 1)
       IN IF usable(list[n]) THEN [done EXCEPT ![list[n].name] = Descriptor(list[n])] ELSE done

\* getMcpServers: the empty record when 'mcp.config' cannot be read or is not
\* a list
getMcpServers(mcp) ==
  IF mcp.kind = "list" THEN mcpConfigOf(mcp.list, Len(mcp.list))
  ELSE [s \in Servers |-> NoDescriptor]

\* getImageGenerationModel: the stored model when it is there and switched on
getImageGenerationModel(image) ==
  IF image.kind = "model" /\ image.switch THEN image.name ELSE "none"

\* the configuration the bootstrap passes to start()
startConfig(config) ==
  [mcpServers |-> getMcpServers(config.mcp),
   imageGenerationModel |-> getImageGenerationModel(config.image)]

NoAgentConfig == [mcpServers |-> [s \in Servers |-> NoDescriptor], imageGenerationModel |-> "unset"]
\* nothing configured: no server list, no image generation model
NoConfig == [mcp |-> [kind |-> "absent", list |-> <<>>],
             image |-> [kind |-> "absent", switch |-> FALSE, name |-> "none"]]

Init ==
  /\ convs = [id \in Ids |-> IF id = "c1" THEN NewConv("gemini", "M1") ELSE NoConv]
  /\ legacy = [id \in Ids |-> NoConv]
  /\ migrating = {}
  /\ processConfig = NoConfig
  /\ agentConfig = [i \in Calls |-> NoAgentConfig]
  /\ messages = EmptyBag
  /\ localQueue = {}
  /\ localWaiters = {}
  /\ taskList = <<>>
  /\ tasks = [i \in Calls |-> NoTask]
  /\ building = {}
  /\ calls = [p \in Calls |-> NoCall]
  /\ turns = [p \in Calls |-> NoTurn]
  /\ pendingConfirm = [i \in Calls |-> {}]
  /\ lastGetWorkspaceAbortController = 0
  /\ abortedWorkspaceReads = {}
  /\ published = {}
  /\ replies = {}

\* requests take the call slots in order
Idle(p) == calls[p].pc = "idle" /\ \A q \in Calls : q < p => calls[q].pc # "idle"
DoneCall == [NoCall EXCEPT !.pc = "done"]
\* key: the msg_id of a sendMessage, the callId of a confirmMessage
Reply(p, res) ==
  [call |-> p, op |-> calls[p].op, cid |-> calls[p].cid, key |-> calls[p].mid, res |-> res,
   data |-> NoConv]

\* call p, issued as op on id, returns res in the step that issues it
Return(p, op, id, key, res) ==
  /\ calls' = [calls EXCEPT ![p] = DoneCall]
  /\ replies' = {[call |-> p, op |-> op, cid |-> id, key |-> key, res |-> res, data |-> NoConv]}

\* call p, issued as op on id, returns res and the data read from the stores
ReturnData(p, op, id, res, data) ==
  /\ calls' = [calls EXCEPT ![p] = DoneCall]
  /\ replies' = {[call |-> p, op |-> op, cid |-> id, key |-> 0, res |-> res, data |-> data]}

\* the suspended call p returns res
Resume(p, res) ==
  /\ calls' = [calls EXCEPT ![p] = DoneCall]
  /\ replies' = {Reply(p, res)}

\* ------------------------------------------------------ message persistence
UserMessage(id, m) ==
  [id |-> m, msg_id |-> m, type |-> "text", position |-> "right", conversation_id |-> id]

KindOf(type) ==
  IF type = "content" THEN "text" ELSE IF type = "error" THEN "tips" ELSE type

\* id of the message that the events of one kind of one msg_id are merged into
RespId(msg_id, type) ==
  1000 + 10 * msg_id + (IF type = "content" THEN 1 ELSE IF type = "error" THEN 2 ELSE 3)

\* transformMessage gives no message for start and finish events
Transformable(type) == type \notin {"start", "finish"}

\* mutant: whatever transformMessage gives a message for is persisted
persistedAny(type) == Transformable(type)

\* the handler persists the message of every event but a thought
persisted(type) == type # "thought" /\ Transformable(type)

transformMessage(ev) ==
  [id |-> RespId(ev.msg_id, ev.type), msg_id |-> ev.msg_id, type |-> KindOf(ev.type),
   position |-> "left", conversation_id |-> ev.conversation_id]

\* the stored copies of the message with this id in this conversation
Stored(msgs, id, m) ==
  {x \in BagToSet(msgs) : x.id = m /\ x.conversation_id = id}

RECURSIVE Copies(_, _)
Copies(msgs, xs) ==
  IF xs = {} THEN 0
  ELSE LET x == CHOOSE y \in xs : TRUE IN CopiesIn(x, msgs) + Copies(msgs, xs \ {x})

\* how many times the message id m of conversation id is stored
Count(msgs, id, m) == Copies(msgs, Stored(msgs, id, m))

\* mutant: inserts whether or not the id is already stored
upsertAppend(msgs, m) == msgs (+) SetToBag({m})

\* append-or-update by (conversation id, message id): every stored copy of the
\* id is replaced, and the message is inserted when there is none
upsert(msgs, m) ==
  LET old == Stored(msgs, m.conversation_id, m.id)
      n == Copies(msgs, old)
      rest == [x \in BagToSet(msgs) \ old |-> msgs[x]]
  IN IF n = 0 THEN msgs (+) SetToBag({m})
     ELSE rest (+) [x \in {m} |-> n]

addMessage(msgs, id, m) == upsert(msgs, m)

\* the queued messages are written, one upsert each
RECURSIVE writeAll(_, _)
writeAll(msgs, queue) ==
  IF queue = {} THEN msgs
  ELSE LET m == CHOOSE x \in queue : TRUE IN writeAll(upsert(msgs, m), queue \ {m})

Event(i, type, msg_id) == [type |-> type, msg_id |-> msg_id, conversation_id |-> tasks[i].id]

\* mutant: a start event puts the task back to pending
statusAfterSwapped(status, type) ==
  IF type = "finish" THEN "finished" ELSE IF type = "start" THEN "pending" ELSE status

statusAfter(status, type) ==
  IF type = "finish" THEN "finished" ELSE IF type = "start" THEN "running" ELSE status

\* mutant: the event of one task sets the status of every task
onGeminiMessageBroadcast(i, type, msg_id) ==
  /\ tasks' = [j \in Calls |-> [tasks[j] EXCEPT !.status = statusAfter(@, type)]]
  /\ localQueue' = IF persisted(type)
                   THEN localQueue \cup {transformMessage(Event(i, type, msg_id))}
                   ELSE localQueue
  /\ published' = {[by |-> i, ev |-> Event(i, type, msg_id)]}

\* the 'gemini.message' handler of task i, for one event
onGeminiMessage(i, type, msg_id) ==
  /\ tasks' = [tasks EXCEPT ![i].status = statusAfter(@, type)]
  /\ localQueue' = IF persisted(type)
                   THEN localQueue \cup {transformMessage(Event(i, type, msg_id))}
                   ELSE localQueue
  /\ published' = {[by |-> i, ev |-> Event(i, type, msg_id)]}

\* ---------------------------------------------------- conversation bridge
\* mutant: the status of the task is reported as it is, set or not
ObservedRaw(ts, list, id) ==
  LET i == getTaskById(list, id)
  IN IF i = NoInst THEN "finished" ELSE ts[i].status

\* the status that get reports for a conversation
Observed(ts, list, id) ==
  LET i == getTaskById(list, id)
  IN IF i = NoInst \/ ts[i].status = "none" THEN "finished" ELSE ts[i].status

\* kill(id): the task's worker is killed and the entry removed
Kill(id) ==
  /\ tasks' = killTasks(tasks, taskList, id)
  /\ taskList' = killList(taskList, id)
  /\ pendingConfirm' = [i \in Calls |-> IF i \in InstsOf(taskList, id) THEN {} ELSE pendingConfirm[i]]
  /\ turns' = [p \in Calls |-> IF turns[p].inst \in InstsOf(taskList, id) THEN NoTurn ELSE turns[p]]

\* mutant: create kills the task registered under the id before it builds
CreateKillsPrior(p, id, type, model) ==
  /\ Idle(p)
  /\ IF type \in Types
     THEN /\ tasks' = [killTasks(tasks, taskList, id) EXCEPT ![p] = NewTask(NewConv(type, model), id)]
          /\ taskList' = buildConversation(taskList, id, p)
          /\ convs' = IF convs[id] = NoConv
                      THEN [convs EXCEPT ![id] = NewConv(type, model)]
                      ELSE convs
          /\ Return(p, "create", id, 0, "ok")
     ELSE /\ Return(p, "create", id, 0, "threw")
          /\ UNCHANGED <<tasks, taskList, convs>>
  /\ UNCHANGED <<messages, localQueue, localWaiters, building, turns, pendingConfirm>>
  /\ published' = {}
  /\ UNCHANGED <<legacy, migrating, processConfig, agentConfig,
                 lastGetWorkspaceAbortController, abortedWorkspaceReads>>

\* create: builds the task and saves the conversation
Create(p, id, type, model) ==
  /\ Idle(p)
  /\ IF type \in Types
     THEN /\ tasks' = [tasks EXCEPT ![p] = NewTask(NewConv(type, model), id)]
          /\ taskList' = buildConversation(taskList, id, p)
          /\ convs' = IF convs[id] = NoConv
                      THEN [convs EXCEPT ![id] = NewConv(type, model)]
                      ELSE convs
          /\ Return(p, "create", id, 0, "ok")
     ELSE /\ Return(p, "create", id, 0, "threw")
          /\ UNCHANGED <<tasks, taskList, convs>>
  /\ UNCHANGED <<messages, localQueue, localWaiters, building, turns, pendingConfirm>>
  /\ published' = {}
  /\ UNCHANGED <<legacy, migrating, processConfig, agentConfig,
                 lastGetWorkspaceAbortController, abortedWorkspaceReads>>

CreateWithConversation(p, id, type, model) ==
  /\ Idle(p)
  /\ IF type \in Types
     THEN /\ tasks' = [tasks EXCEPT ![p] = NewTask(NewConv(type, model), id)]
          /\ taskList' = buildConversation(taskList, id, p)
          /\ convs' = IF convs[id] = NoConv
                      THEN [convs EXCEPT ![id] = NewConv(type, model)]
                      ELSE convs
     ELSE UNCHANGED <<tasks, taskList, convs>>
  /\ Return(p, "createWith", id, 0, "ok")
  /\ UNCHANGED <<messages, localQueue, localWaiters, building, turns, pendingConfirm>>
  /\ published' = {}
  /\ UNCHANGED <<legacy, migrating, processConfig, agentConfig,
                 lastGetWorkspaceAbortController, abortedWorkspaceReads>>

Remove(p, id, ok) ==
  /\ Idle(p)
  /\ Kill(id)
  /\ IF ok
     THEN /\ convs' = [convs EXCEPT ![id] = NoConv]
          /\ messages' = [x \in {y \in BagToSet(messages) : y.conversation_id # id} |-> messages[x]]
          /\ Return(p, "remove", id, 0, "true")
     ELSE /\ Return(p, "remove", id, 0, "false")
          /\ UNCHANGED <<convs, messages>>
  /\ UNCHANGED <<localQueue, localWaiters, building>>
  /\ published' = {}
  /\ UNCHANGED <<legacy, migrating, processConfig, agentConfig,
                 lastGetWorkspaceAbortController, abortedWorkspaceReads>>

\* mutant: every update counts as a model change
modelChangedAlways(prev, next) == TRUE

\* mutant: a model change is never detected
modelChangedNever(prev, next) == FALSE

modelChanged(prev, next) == next # "none" /\ prev # next

Update(p, id, model, ok) ==
  /\ Idle(p)
  /\ LET success == ok /\ convs[id] # NoConv IN
     /\ convs' = IF success /\ model # "none" THEN [convs EXCEPT ![id].model = model] ELSE convs
     /\ IF success /\ modelChanged(convs[id].model, model)
        THEN Kill(id)
        ELSE UNCHANGED <<tasks, taskList, pendingConfirm, turns>>
     /\ Return(p, "update", id, 0, IF success THEN "true" ELSE "false")
  /\ UNCHANGED <<messages, localQueue, localWaiters, building>>
  /\ published' = {}
  /\ UNCHANGED <<legacy, migrating, processConfig, agentConfig,
                 lastGetWorkspaceAbortController, abortedWorkspaceReads>>

\* mutant: reset clears the registry whether or not an id is given
ResetClears(p, id) ==
  /\ Idle(p)
  /\ tasks' = [i \in Calls |-> IF \E k \in 1..Len(taskList) : taskList[k].inst = i
                                THEN killTask(tasks[i]) ELSE tasks[i]]
  /\ taskList' = <<>>
  /\ pendingConfirm' = [i \in Calls |-> {}]
  /\ turns' = [q \in Calls |-> IF \E k \in 1..Len(taskList) : taskList[k].inst = turns[q].inst
                                THEN NoTurn ELSE turns[q]]
  /\ Return(p, "reset", id, 0, "ok")
  /\ UNCHANGED <<convs, messages, localQueue, localWaiters, building>>
  /\ published' = {}
  /\ UNCHANGED <<legacy, migrating, processConfig, agentConfig,
                 lastGetWorkspaceAbortController, abortedWorkspaceReads>>

Reset(p, id) ==
  /\ Idle(p)
  /\ Kill(id)
  /\ Return(p, "reset", id, 0, "ok")
  /\ UNCHANGED <<convs, messages, localQueue, localWaiters, building>>
  /\ published' = {}
  /\ UNCHANGED <<legacy, migrating, processConfig, agentConfig,
                 lastGetWorkspaceAbortController, abortedWorkspaceReads>>

Registered(list) == {list[k].inst : k \in 1..Len(list)}

\* reset without an id: clear()
ResetAll(p) ==
  /\ Idle(p)
  /\ tasks' = [i \in Calls |-> IF i \in Registered(taskList) THEN killTask(tasks[i]) ELSE tasks[i]]
  /\ taskList' = <<>>
  /\ pendingConfirm' = [i \in Calls |-> {}]
  /\ turns' = [q \in Calls |-> IF turns[q].inst \in Registered(taskList) THEN NoTurn ELSE turns[q]]
  /\ Return(p, "reset", "none", 0, "ok")
  /\ UNCHANGED <<convs, messages, localQueue, localWaiters, building>>
  /\ published' = {}
  /\ UNCHANGED <<legacy, migrating, processConfig, agentConfig,
                 lastGetWorkspaceAbortController, abortedWorkspaceReads>>

\* mutant: get waits for the migration it starts
migrateAwaited(cs, lg, id) == IF cs[id] = NoConv THEN [cs EXCEPT ![id] = lg[id]] ELSE cs

\* void migrateConversationToDatabase(...): the caller goes on with the
\* structured store as it is
migrateInBackground(cs, lg, id) == cs

\* the ids whose migration a read of id starts
migrationOf(cs, lg, id) == IF cs[id] = NoConv /\ lg[id] # NoConv THEN {id} ELSE {}

\* get: the stored conversation with the status of its task, or nothing; a
\* conversation found in the legacy store only is migrated in the background
Get(p, id) ==
  /\ Idle(p)
  /\ LET conv == stored(convs, legacy, id) IN
     ReturnData(p, "get", id,
                IF conv = NoConv THEN "absent" ELSE Observed(tasks, taskList, id), conv)
  /\ migrating' = migrating \cup migrationOf(convs, legacy, id)
  /\ convs' = IF migrationOf(convs, legacy, id) = {} THEN convs
              ELSE migrateInBackground(convs, legacy, id)
  /\ UNCHANGED <<legacy, messages, localQueue, localWaiters, taskList, tasks, building, turns,
                 pendingConfirm>>
  /\ UNCHANGED <<processConfig, agentConfig, lastGetWorkspaceAbortController, abortedWorkspaceReads>>
  /\ published' = {}

\* the ids a store holds
Held(cs) == {id \in Ids : cs[id] # NoConv}

\* the list getAssociateConversation filters: the structured store, unless it
\* holds fewer conversations than the legacy store
allConversations(cs, lg) ==
  IF Cardinality(Held(cs)) < Cardinality(Held(lg)) THEN lg ELSE cs

\* getAssociateConversation: the ids of the listed conversations that share
\* the workspace of the given one
associated(cs, lg, id) ==
  LET current == stored(cs, lg, id)
      all == allConversations(cs, lg)
  IN IF current = NoConv \/ current.workspace = "none" THEN {}
     ELSE {x \in Held(all) : all[x].workspace = current.workspace}

GetAssociateConversation(p, id) ==
  /\ Idle(p)
  /\ ReturnData(p, "getAssociated", id, "ok", associated(convs, legacy, id))
  /\ LET current == stored(convs, legacy, id) IN
     migrating' = migrating \cup migrationOf(convs, legacy, id)
                  \cup (IF current # NoConv /\ current.workspace # "none"
                           /\ Cardinality(Held(convs)) < Cardinality(Held(legacy))
                        THEN Held(legacy) ELSE {})
  /\ UNCHANGED <<convs, legacy, messages, localQueue, localWaiters, taskList, tasks, building,
                 turns, pendingConfirm>>
  /\ UNCHANGED <<processConfig, agentConfig, lastGetWorkspaceAbortController, abortedWorkspaceReads>>
  /\ published' = {}

\* migrateConversationToDatabase settles: a conversation that the structured
\* store does not hold is copied into it, unless the migration fails
Migrate(id, ok) ==
  /\ id \in migrating
  /\ migrating' = migrating \ {id}
  /\ convs' = IF ok /\ convs[id] = NoConv THEN [convs EXCEPT ![id] = legacy[id]] ELSE convs
  /\ UNCHANGED <<legacy, messages, localQueue, localWaiters, taskList, tasks, building, calls,
                 turns, pendingConfirm>>
  /\ UNCHANGED <<processConfig, agentConfig, lastGetWorkspaceAbortController, abortedWorkspaceReads>>
  /\ published' = {}
  /\ replies' = {}

\* mutant: stop ends the task as kill does
StopKills(p, id) ==
  /\ Idle(p)
  /\ tasks' = killTasks(tasks, taskList, id)
  /\ taskList' = killList(taskList, id)
  /\ pendingConfirm' = [i \in Calls |-> IF i \in InstsOf(taskList, id) THEN {} ELSE pendingConfirm[i]]
  /\ turns' = [q \in Calls |-> IF turns[q].inst \in InstsOf(taskList, id) THEN NoTurn ELSE turns[q]]
  /\ Return(p, "stop", id, 0, "ok")
  /\ UNCHANGED <<convs, messages, localQueue, localWaiters, building>>
  /\ published' = {}
  /\ UNCHANGED <<legacy, migrating, processConfig, agentConfig,
                 lastGetWorkspaceAbortController, abortedWorkspaceReads>>

\* stop: the task registered under the id, if any, aborts the controller its
\* agent holds; the envelope reports success, with or without a task
Stop(p, id) ==
  /\ Idle(p)
  /\ LET i == getTaskById(taskList, id) IN
     turns' = IF i = NoInst THEN turns ELSE [q \in Calls |-> abort(turns[q], i)]
  /\ Return(p, "stop", id, 0, "ok")
  /\ UNCHANGED <<convs, messages, localQueue, localWaiters, taskList, tasks, building,
                 pendingConfirm>>
  /\ published' = {}
  /\ UNCHANGED <<legacy, migrating, processConfig, agentConfig,
                 lastGetWorkspaceAbortController, abortedWorkspaceReads>>

\* getTaskByIdRollbackBuild, up to its first suspension
Lookup(p, op, id, m) ==
  LET t == getTaskById(taskList, id)
      q == Inflight(building, calls, id)
      c == [NoCall EXCEPT !.op = op, !.cid = id, !.mid = m]
  IN IF t # NoInst
     THEN /\ calls' = [calls EXCEPT ![p] = [c EXCEPT !.pc = "resolved", !.task = t]]
          /\ UNCHANGED building
     ELSE IF q # NoInst
     THEN /\ calls' = [calls EXCEPT ![p] = [c EXCEPT !.pc = "awaitBuild", !.owner = q]]
          /\ UNCHANGED building
     ELSE /\ calls' = [calls EXCEPT ![p] = [c EXCEPT !.pc = "awaitBuild", !.owner = p]]
          /\ building' = building \cup {p}

\* mutant: a send that finds its task invokes the send of the task at once,
\* before the files are copied
SendMessageEager(p, id, m) ==
  /\ Idle(p)
  /\ LET t == getTaskById(taskList, id) IN
     IF t # NoInst /\ tasks[t].type = "gemini"
     THEN /\ calls' = [calls EXCEPT ![p] = [NoCall EXCEPT !.op = "send", !.cid = id, !.mid = m,
                                                          !.pc = "awaitBootstrap", !.task = t]]
          /\ messages' = addMessage(messages, id, UserMessage(id, m))
          /\ tasks' = [tasks EXCEPT ![t].status = "pending"]
          /\ UNCHANGED building
     ELSE /\ Lookup(p, "send", id, m)
          /\ UNCHANGED <<messages, tasks>>
  /\ UNCHANGED <<convs, localQueue, localWaiters, taskList, turns, pendingConfirm>>
  /\ published' = {}
  /\ replies' = {}
  /\ UNCHANGED <<legacy, migrating, processConfig, agentConfig,
                 lastGetWorkspaceAbortController, abortedWorkspaceReads>>

SendMessage(p, id, m) ==
  /\ Idle(p)
  /\ Lookup(p, "send", id, m)
  /\ UNCHANGED <<convs, messages, localQueue, localWaiters, taskList, tasks, turns,
                 pendingConfirm>>
  /\ published' = {}
  /\ replies' = {}
  /\ UNCHANGED <<legacy, migrating, processConfig, agentConfig,
                 lastGetWorkspaceAbortController, abortedWorkspaceReads>>

ReloadContext(p, id) ==
  /\ Idle(p)
  /\ Lookup(p, "reload", id, 0)
  /\ UNCHANGED <<convs, messages, localQueue, localWaiters, taskList, tasks, turns,
                 pendingConfirm>>
  /\ published' = {}
  /\ replies' = {}
  /\ UNCHANGED <<legacy, migrating, processConfig, agentConfig,
                 lastGetWorkspaceAbortController, abortedWorkspaceReads>>

\* the in-flight rebuild owned by q completes: every caller awaiting it resumes
RebuildFinish(q) ==
  /\ q \in building
  /\ building' = building \ {q}
  /\ LET id == calls[q].cid
         conv == stored(convs, legacy, id)
         waits(p) == calls[p].pc = "awaitBuild" /\ calls[p].owner = q
     IN IF conv = NoConv
        THEN /\ calls' = [p \in Calls |-> IF waits(p) THEN DoneCall ELSE calls[p]]
             /\ replies' = {Reply(p, "fail") : p \in {w \in Calls : waits(w)}}
             /\ UNCHANGED <<tasks, taskList>>
        ELSE /\ tasks' = [tasks EXCEPT ![q] = NewTask(conv, id)]
             /\ taskList' = buildConversation(taskList, id, q)
             /\ calls' = [p \in Calls |-> IF waits(p)
                                          THEN [calls[p] EXCEPT !.pc = "resolved", !.task = q,
                                                                !.owner = NoInst]
                                          ELSE calls[p]]
             /\ replies' = {}
  /\ UNCHANGED <<convs, messages, localQueue, localWaiters, turns, pendingConfirm>>
  /\ published' = {}
  /\ UNCHANGED <<legacy, migrating, processConfig, agentConfig,
                 lastGetWorkspaceAbortController, abortedWorkspaceReads>>

\* ------------------------------------------------------ history injection
HistoryLast == 20      \* slice(-20): the text messages taken
HistoryCap == 4000     \* slice(-4000): the characters kept
UserPrefix == 6        \* the length of 'User: '
AssistantPrefix == 11  \* the length of 'Assistant: '

\* the text messages of a conversation
TextOf(msgs, id) ==
  {x \in BagToSet(msgs) : x.conversation_id = id /\ x.type = "text"}

\* getConversationMessages: messages in the order they were stored
RECURSIVE inOrder(_)
inOrder(S) ==
  IF S = {} THEN <<>>
  ELSE LET x == CHOOSE y \in S : \A z \in S : y.at <= z.at
       IN <<x>> \o inOrder(S \ {x})

\* mutant: every message is taken
lastAll(seq, n) == seq

\* slice(-n) of a list
lastN(seq, n) == IF Len(seq) <= n THEN seq ELSE SubSeq(seq, Len(seq) - n + 1, Len(seq))

\* the length of the line made for one message
lineLen(m) == (IF m.position = "right" THEN UserPrefix ELSE AssistantPrefix) + m.len

\* the length of lines.join('\n')
RECURSIVE joinLen(_)
joinLen(lines) ==
  IF Len(lines) = 0 THEN 0
  ELSE IF Len(lines) = 1 THEN lineLen(lines[1])
  ELSE lineLen(lines[1]) + 1 + joinLen(Tail(lines))

\* mutant: the text is not cut
sliceNone(len, k) == len

\* the length of slice(-k) of a string of length len
sliceLast(len, k) == IF len > k THEN k ELSE len

\* the messages the history text is made from
historyLines(msgs, id) == lastN(inOrder(TextOf(msgs, id)), HistoryLast)

\* the length of the text that injectHistoryFromDatabase sends
historyText(msgs, id) == sliceLast(joinLen(historyLines(msgs, id)), HistoryCap)

HasText(msgs, id) ==
  \E x \in BagToSet(msgs) : x.conversation_id = id /\ x.type = "text"

\* mutant: a failure of the injection fails the request
ReloadedStrict(p, injected) ==
  /\ calls[p].op = "reload" /\ calls[p].pc = "resolved"
  /\ LET i == calls[p].task IN
     IF tasks[i].type # "gemini" \/ ~injected
     THEN /\ Resume(p, "fail")
          /\ UNCHANGED tasks
     ELSE /\ Resume(p, "ok")
          /\ tasks' = IF tasks[i].alive /\ tasks[i].boot = "ok" /\ HasText(messages, tasks[i].id)
                      THEN [tasks EXCEPT ![i].armed = TRUE] ELSE tasks
  /\ UNCHANGED <<convs, messages, localQueue, localWaiters, taskList, building, turns,
                 pendingConfirm>>
  /\ published' = {}
  /\ UNCHANGED <<legacy, migrating, processConfig, agentConfig,
                 lastGetWorkspaceAbortController, abortedWorkspaceReads>>

\* reloadContext with its task resolved: injects the recent history into an
\* agent that is initialized; whatever the injection throws (injected = FALSE)
\* is swallowed by injectHistoryFromDatabase
Reloaded(p, injected) ==
  /\ calls[p].op = "reload" /\ calls[p].pc = "resolved"
  /\ LET i == calls[p].task IN
     IF tasks[i].type # "gemini"
     THEN /\ Resume(p, "fail")
          /\ UNCHANGED tasks
     ELSE /\ Resume(p, "ok")
          /\ tasks' = IF injected /\ tasks[i].alive /\ tasks[i].boot = "ok"
                         /\ HasText(messages, tasks[i].id)
                      THEN [tasks EXCEPT ![i].armed = TRUE] ELSE tasks
  /\ UNCHANGED <<convs, messages, localQueue, localWaiters, taskList, building, turns,
                 pendingConfirm>>
  /\ published' = {}
  /\ UNCHANGED <<legacy, migrating, processConfig, agentConfig,
                 lastGetWorkspaceAbortController, abortedWorkspaceReads>>

\* mutant: the task awaits bootstrap without persisting the message or
\* setting the status
CopyFilesNoPersist(p, ok) ==
  /\ calls[p].op = "send" /\ calls[p].pc = "resolved"
  /\ LET i == calls[p].task IN
     IF ~ok
     THEN Resume(p, "threw")
     ELSE IF tasks[i].type = "gemini"
          THEN calls' = [calls EXCEPT ![p].pc = "awaitBootstrap"] /\ replies' = {}
          ELSE Resume(p, "ok")
  /\ UNCHANGED <<convs, messages, tasks, localQueue, localWaiters, taskList, building, turns,
                 pendingConfirm>>
  /\ published' = {}
  /\ UNCHANGED <<legacy, migrating, processConfig, agentConfig,
                 lastGetWorkspaceAbortController, abortedWorkspaceReads>>

\* sendMessage of the bridge after copyFilesToDirectory: the task's sendMessage
\* up to its await of bootstrap
CopyFiles(p, ok) ==
  /\ calls[p].op = "send" /\ calls[p].pc = "resolved"
  /\ LET i == calls[p].task IN
     IF ~ok
     THEN /\ Resume(p, "threw")
          /\ UNCHANGED <<messages, tasks>>
     ELSE /\ messages' = addMessage(messages, tasks[i].id, UserMessage(tasks[i].id, calls[p].mid))
          /\ tasks' = [tasks EXCEPT ![i].status = "pending"]
          /\ IF tasks[i].type = "gemini"
             THEN calls' = [calls EXCEPT ![p].pc = "awaitBootstrap"] /\ replies' = {}
             ELSE Resume(p, "ok")
  /\ UNCHANGED <<convs, localQueue, localWaiters, taskList, building, turns, pendingConfirm>>
  /\ published' = {}
  /\ UNCHANGED <<legacy, migrating, processConfig, agentConfig,
                 lastGetWorkspaceAbortController, abortedWorkspaceReads>>

\* the bootstrap promise of task i settles (start of the worker, history injection)
Bootstrap(i, ok) ==
  /\ tasks[i].alive /\ tasks[i].type = "gemini" /\ tasks[i].boot = "pending"
  /\ tasks' = [tasks EXCEPT ![i].boot = IF ok THEN "ok" ELSE "failed",
                            ![i].armed = ok /\ HasText(messages, tasks[i].id)]
  /\ UNCHANGED <<convs, messages, localQueue, localWaiters, taskList, building, calls, turns,
                 pendingConfirm>>
  /\ published' = {}
  /\ replies' = {}
  /\ agentConfig' = IF ok THEN [agentConfig EXCEPT ![i] = startConfig(processConfig)] ELSE agentConfig
  /\ UNCHANGED <<legacy, migrating, processConfig, lastGetWorkspaceAbortController, abortedWorkspaceReads>>

\* mutant: the rejection is deferred, but no error event is emitted
SendFailedSilent(p) ==
  /\ calls[p].pc = "awaitBootstrap"
  /\ tasks[calls[p].task].boot = "failed"
  /\ localWaiters' = localWaiters \cup {p}
  /\ calls' = [calls EXCEPT ![p].pc = "localFinish"]
  /\ UNCHANGED <<convs, messages, localQueue, tasks, taskList, building, turns, pendingConfirm>>
  /\ published' = {}
  /\ replies' = {}
  /\ UNCHANGED <<legacy, migrating, processConfig, agentConfig,
                 lastGetWorkspaceAbortController, abortedWorkspaceReads>>

\* mutant: the error event is emitted and the promise rejects at once
SendFailedRejectNow(p) ==
  /\ calls[p].pc = "awaitBootstrap"
  /\ tasks[calls[p].task].boot = "failed"
  /\ onGeminiMessage(calls[p].task, "error", calls[p].mid)
  /\ Resume(p, "fail")
  /\ UNCHANGED <<convs, messages, localWaiters, taskList, building, turns, pendingConfirm>>
  /\ UNCHANGED <<legacy, migrating, processConfig, agentConfig,
                 lastGetWorkspaceAbortController, abortedWorkspaceReads>>

\* sendMessage of the task after bootstrap failed: the error event, then the
\* rejection is deferred to nextTickToLocalFinish
SendFailed(p) ==
  /\ calls[p].pc = "awaitBootstrap"
  /\ tasks[calls[p].task].boot = "failed"
  /\ onGeminiMessage(calls[p].task, "error", calls[p].mid)
  /\ localWaiters' = localWaiters \cup {p}
  /\ calls' = [calls EXCEPT ![p].pc = "localFinish"]
  /\ UNCHANGED <<convs, messages, taskList, building, turns, pendingConfirm>>
  /\ replies' = {}
  /\ UNCHANGED <<legacy, migrating, processConfig, agentConfig,
                 lastGetWorkspaceAbortController, abortedWorkspaceReads>>

\* mutant: the send is forwarded without waiting for bootstrap to succeed
SendForwardEager(p) ==
  /\ calls[p].pc = "awaitBootstrap"
  /\ LET i == calls[p].task IN
     /\ calls' = [calls EXCEPT ![p].pc = "awaitSend"]
     /\ IF tasks[i].alive
        THEN /\ turns' = createAbortController(
                            [turns EXCEPT ![p] = [NoTurn EXCEPT !.inst = i, !.mid = calls[p].mid,
                                                                !.phase[0] = "atCommand"]],
                            i, p, 0)
             /\ tasks' = [tasks EXCEPT ![i].armed = FALSE]
        ELSE UNCHANGED <<turns, tasks>>
  /\ UNCHANGED <<convs, messages, localQueue, localWaiters, taskList, building,
                 pendingConfirm>>
  /\ published' = {}
  /\ replies' = {}
  /\ UNCHANGED <<legacy, migrating, processConfig, agentConfig,
                 lastGetWorkspaceAbortController, abortedWorkspaceReads>>

\* GeminiAgent.send prepends the history prefix when one is set and not yet
\* used (historyPrefix && !historyUsedOnce)
prefixed(t) == t.armed

\* mutant: the send uses the history prefix without marking it as used
SendForwardKeepsPrefix(p) ==
  /\ calls[p].pc = "awaitBootstrap"
  /\ LET i == calls[p].task IN
     /\ tasks[i].boot = "ok"
     /\ calls' = [calls EXCEPT ![p].pc = "awaitSend"]
     /\ IF tasks[i].alive
        THEN /\ turns' = createAbortController(
                            [turns EXCEPT ![p] = [NoTurn EXCEPT !.inst = i, !.mid = calls[p].mid,
                                                                !.phase[0] = "atCommand"]],
                            i, p, 0)
             /\ UNCHANGED tasks
        ELSE UNCHANGED <<turns, tasks>>
  /\ UNCHANGED <<convs, messages, localQueue, localWaiters, taskList, building,
                 pendingConfirm>>
  /\ published' = {}
  /\ replies' = {}
  /\ UNCHANGED <<legacy, migrating, processConfig, agentConfig,
                 lastGetWorkspaceAbortController, abortedWorkspaceReads>>

\* sendMessage of the task after bootstrap succeeded: forwarded to the agent,
\* whose send consumes the history prefix and pre-processes the query
SendForward(p) ==
  /\ calls[p].pc = "awaitBootstrap"
  /\ LET i == calls[p].task IN
     /\ tasks[i].boot = "ok"
     /\ calls' = [calls EXCEPT ![p].pc = "awaitSend"]
     /\ IF tasks[i].alive
        THEN /\ turns' = createAbortController(
                            [turns EXCEPT ![p] = [NoTurn EXCEPT !.inst = i, !.mid = calls[p].mid,
                                                                !.phase[0] = "atCommand"]],
                            i, p, 0)
             /\ tasks' = [tasks EXCEPT ![i].armed = FALSE]
        ELSE UNCHANGED <<turns, tasks>>
  /\ UNCHANGED <<convs, messages, localQueue, localWaiters, taskList, building,
                 pendingConfirm>>
  /\ published' = {}
  /\ replies' = {}
  /\ UNCHANGED <<legacy, migrating, processConfig, agentConfig,
                 lastGetWorkspaceAbortController, abortedWorkspaceReads>>

\* the queued writes reach the store; then the callbacks waiting for that run
LocalFinish ==
  /\ localQueue # {} \/ localWaiters # {}
  /\ messages' = writeAll(messages, localQueue)
  /\ localQueue' = {}
  /\ localWaiters' = {}
  /\ calls' = [p \in Calls |-> IF p \in localWaiters THEN DoneCall ELSE calls[p]]
  /\ replies' = {Reply(p, "fail") : p \in localWaiters}
  /\ UNCHANGED <<convs, taskList, tasks, building, turns, pendingConfirm>>
  /\ published' = {}
  /\ UNCHANGED <<legacy, migrating, processConfig, agentConfig,
                 lastGetWorkspaceAbortController, abortedWorkspaceReads>>

\* ------------------------------------------------------- the agent's turn
\* msg_id of round r of the turn of call p: the client's msg_id, then a uuid()
\* for each continuation
MsgOf(p, r) == IF r = 0 THEN turns[p].mid ELSE 100 + 10 * r + p
\* msg_id (a uuid()) of the tool_group events of round r of the turn of call p
ToolMsg(p, r) == 200 + 10 * r + p
\* callId of the tool call requested in round r of the turn of call p
CallId(p, r) == 10 * r + p
UnknownCall == 99

Live(p) == turns[p].inst # NoInst /\ tasks[turns[p].inst].alive

\* stop() has aborted the controller of round r of the turn of call p
Aborted(p, r) == turns[p].signal[r] = "aborted"

\* how send goes on after handleAtCommand: with its signal aborted it returns
atCommandOutcomes(aborted) == IF aborted THEN {"skip"} ELSE {"skip", "throw", "stream"}

\* mutant: the abort of the signal makes the model stream throw
streamOutcomesThrown(aborted) == IF aborted THEN {"fail"} ELSE {"plain", "fail", "tools"}

\* how the model stream of a round ends: an aborted stream ends without more
\* events, without tool call requests and without throwing
streamOutcomes(aborted) == IF aborted THEN {"plain"} ELSE {"plain", "fail", "tools"}

\* the prompt id made for a new prompt: session id and prompt count
NewPromptId(p, r) == 10 * r + p

\* submitQuery without options
NoOptions == [prompt_id |-> 0, isContinuation |-> FALSE]

\* submitQuery: round r of the turn t of call p starts streaming under the
\* prompt id given, or else a new one; it is a new prompt unless it is marked
\* as a continuation
submitQuery(t, p, r, options) ==
  [t EXCEPT !.phase[r] = "streaming",
            !.prompt[r] = IF options.prompt_id # 0 THEN options.prompt_id ELSE NewPromptId(p, r),
            !.fresh[r] = ~options.isContinuation]

\* mutant: the responses are submitted as a query of their own
continuationAsNew(t, r) == NoOptions

\* the options onAllToolCallsComplete submits the responses with
continuationOptions(t, r) == [prompt_id |-> t.prompt[r], isContinuation |-> TRUE]

\* handleCompletedTools: the responses of the completed calls that are not
\* cancelled, if any
handleCompletedTools(state) == IF state \in {"success", "error"} THEN "some" ELSE "none"

\* GeminiAgent.send after handleAtCommand: submitQuery, or a silent return
AtCommand(p, outcome) ==
  /\ Live(p) /\ turns[p].phase[0] = "atCommand"
  /\ calls[p].pc = "awaitSend"
  /\ outcome \in atCommandOutcomes(Aborted(p, 0))
  /\ Resume(p, "ok")
  /\ IF outcome = "skip"
     THEN /\ turns' = [turns EXCEPT ![p] = NoTurn]
          /\ UNCHANGED <<tasks, localQueue>> /\ published' = {}
     ELSE IF outcome = "throw"
     THEN /\ turns' = [turns EXCEPT ![p] = NoTurn]
          /\ onGeminiMessage(turns[p].inst, "error", MsgOf(p, 0))
     ELSE /\ turns' = [turns EXCEPT ![p] = submitQuery(@, p, 0, NoOptions)]
          /\ onGeminiMessage(turns[p].inst, "start", MsgOf(p, 0))
  /\ UNCHANGED <<convs, messages, localWaiters, taskList, building, pendingConfirm>>
  /\ UNCHANGED <<legacy, migrating, processConfig, agentConfig,
                 lastGetWorkspaceAbortController, abortedWorkspaceReads>>

\* handleMessage: one event of the model stream is passed on
StreamEvent(p, r, type) ==
  /\ Live(p) /\ turns[p].phase[r] = "streaming" /\ ~Aborted(p, r)
  /\ turns' = [turns EXCEPT ![p].phase[r] = "streamed"]
  /\ onGeminiMessage(turns[p].inst, type, MsgOf(p, r))
  /\ replies' = {}
  /\ UNCHANGED <<convs, messages, localWaiters, taskList, building, calls, pendingConfirm>>
  /\ UNCHANGED <<legacy, migrating, processConfig, agentConfig,
                 lastGetWorkspaceAbortController, abortedWorkspaceReads>>

\* handleMessage: the model stream ends, with or without tool call requests,
\* or throws
StreamEnd(p, r, outcome) ==
  /\ Live(p) /\ turns[p].phase[r] \in {"streaming", "streamed"}
  /\ outcome \in streamOutcomes(Aborted(p, r))
  /\ IF outcome = "tools"
     THEN /\ r < MaxCont
          /\ turns' = [turns EXCEPT ![p].phase[r] = "scheduling", ![p].tool[r] = "scheduled"]
          /\ UNCHANGED <<tasks, localQueue>> /\ published' = {}
     ELSE IF outcome = "fail"
     THEN /\ turns' = [turns EXCEPT ![p].phase[r] = "errored"]
          /\ onGeminiMessage(turns[p].inst, "error", MsgOf(p, r))
     ELSE /\ turns' = [turns EXCEPT ![p].phase[r] = "finished"]
          /\ onGeminiMessage(turns[p].inst, "finish", MsgOf(p, r))
  /\ replies' = {}
  /\ UNCHANGED <<convs, messages, localWaiters, taskList, building, calls, pendingConfirm>>
  /\ UNCHANGED <<legacy, migrating, processConfig, agentConfig,
                 lastGetWorkspaceAbortController, abortedWorkspaceReads>>

\* mutant: a rejection of scheduler.schedule is not caught
ScheduleReturnUncaught(p, r, ok) ==
  /\ Live(p) /\ turns[p].phase[r] = "scheduling" /\ turns[p].tool[r] # "scheduled"
  /\ ok \/ ~Aborted(p, r)
  /\ IF ok
     THEN /\ turns' = [turns EXCEPT ![p].phase[r] = "finished"]
          /\ onGeminiMessage(turns[p].inst, "finish", MsgOf(p, r))
     ELSE /\ turns' = [turns EXCEPT ![p].phase[r] = "errored"]
          /\ UNCHANGED <<tasks, localQueue>> /\ published' = {}
  /\ replies' = {}
  /\ UNCHANGED <<convs, messages, localWaiters, taskList, building, calls, pendingConfirm>>
  /\ UNCHANGED <<legacy, migrating, processConfig, agentConfig,
                 lastGetWorkspaceAbortController, abortedWorkspaceReads>>

\* scheduler.schedule settles: it returns once the calls are validated and
\* either awaiting approval or started, not when they complete
ScheduleReturn(p, r, ok) ==
  /\ Live(p) /\ turns[p].phase[r] = "scheduling" /\ turns[p].tool[r] # "scheduled"
  /\ ok \/ ~Aborted(p, r)
  /\ IF ok
     THEN /\ turns' = [turns EXCEPT ![p].phase[r] = "finished"]
          /\ onGeminiMessage(turns[p].inst, "finish", MsgOf(p, r))
     ELSE /\ turns' = [turns EXCEPT ![p].phase[r] = "errored"]
          /\ onGeminiMessage(turns[p].inst, "error", MsgOf(p, r))
  /\ replies' = {}
  /\ UNCHANGED <<convs, messages, localWaiters, taskList, building, calls, pendingConfirm>>
  /\ UNCHANGED <<legacy, migrating, processConfig, agentConfig,
                 lastGetWorkspaceAbortController, abortedWorkspaceReads>>

\* mutant: a turn that failed ends without a finish event
FinishSilent(p, r) ==
  /\ Live(p) /\ turns[p].phase[r] = "errored"
  /\ turns' = [turns EXCEPT ![p].phase[r] = "finished"]
  /\ UNCHANGED <<tasks, localQueue>> /\ published' = {}
  /\ replies' = {}
  /\ UNCHANGED <<convs, messages, localWaiters, taskList, building, calls, pendingConfirm>>
  /\ UNCHANGED <<legacy, migrating, processConfig, agentConfig,
                 lastGetWorkspaceAbortController, abortedWorkspaceReads>>

\* submitQuery: the finish event that follows an error of the turn
Finish(p, r) ==
  /\ Live(p) /\ turns[p].phase[r] = "errored"
  /\ turns' = [turns EXCEPT ![p].phase[r] = "finished"]
  /\ onGeminiMessage(turns[p].inst, "finish", MsgOf(p, r))
  /\ replies' = {}
  /\ UNCHANGED <<convs, messages, localWaiters, taskList, building, calls, pendingConfirm>>
  /\ UNCHANGED <<legacy, migrating, processConfig, agentConfig,
                 lastGetWorkspaceAbortController, abortedWorkspaceReads>>

ToolNext(state) ==
  IF state = "scheduled" THEN {"awaiting_approval", "executing", "error"}
  ELSE IF state = "executing" THEN {"success", "error"}
  ELSE {}

\* a tool call that is scheduled or runs under an aborted signal is cancelled
ToolAborted(state) == IF state \in {"scheduled", "executing"} THEN {"cancelled"} ELSE {}

\* mutant: a failure of the mapping to the display is swallowed
ToolUpdateUncaught(p, r, new, mapped) ==
  /\ Live(p)
  /\ new \in (IF Aborted(p, r) THEN ToolAborted(turns[p].tool[r]) ELSE ToolNext(turns[p].tool[r]))
  /\ turns' = [turns EXCEPT ![p].tool[r] = new]
  /\ pendingConfirm' = IF new = "awaiting_approval" /\ mapped
                       THEN [pendingConfirm EXCEPT ![turns[p].inst] = @ \cup {CallId(p, r)}]
                       ELSE pendingConfirm
  /\ IF mapped
     THEN onGeminiMessage(turns[p].inst, "tool_group", ToolMsg(p, r))
     ELSE UNCHANGED <<tasks, localQueue>> /\ published' = {}
  /\ replies' = {}
  /\ UNCHANGED <<convs, messages, localWaiters, taskList, building, calls>>
  /\ UNCHANGED <<legacy, migrating, processConfig, agentConfig,
                 lastGetWorkspaceAbortController, abortedWorkspaceReads>>

\* onToolCallsUpdate: the scheduler reports a new state of the tool call; the
\* calls are mapped to their display and emitted as a tool_group event, and a
\* failure of the mapping is emitted as an error event.  The confirmation slot
\* of a call awaiting approval is registered as its tool_group event passes
ToolUpdate(p, r, new, mapped) ==
  /\ Live(p)
  /\ new \in (IF Aborted(p, r) THEN ToolAborted(turns[p].tool[r]) ELSE ToolNext(turns[p].tool[r]))
  /\ turns' = [turns EXCEPT ![p].tool[r] = new]
  /\ pendingConfirm' = IF new = "awaiting_approval" /\ mapped
                       THEN [pendingConfirm EXCEPT ![turns[p].inst] = @ \cup {CallId(p, r)}]
                       ELSE pendingConfirm
  /\ onGeminiMessage(turns[p].inst, IF mapped THEN "tool_group" ELSE "error", ToolMsg(p, r))
  /\ replies' = {}
  /\ UNCHANGED <<convs, messages, localWaiters, taskList, building, calls>>
  /\ UNCHANGED <<legacy, migrating, processConfig, agentConfig,
                 lastGetWorkspaceAbortController, abortedWorkspaceReads>>

ToolTerminal == {"success", "error", "cancelled"}

\* onAllToolCallsComplete: the responses are submitted as a continuation
AllToolCallsComplete(p, r, resp) ==
  /\ Live(p) /\ turns[p].tool[r] \in ToolTerminal /\ r < MaxCont
  /\ resp \in {handleCompletedTools(turns[p].tool[r]), "throw"}
  /\ IF resp = "some"
     THEN /\ turns' = createAbortController(
                         [turns EXCEPT ![p] = submitQuery([@ EXCEPT !.tool[r] = "notified"], p, r + 1,
                                                          continuationOptions(@, r))],
                         turns[p].inst, p, r + 1)
          /\ onGeminiMessage(turns[p].inst, "start", MsgOf(p, r + 1))
     ELSE IF resp = "throw"
     THEN /\ turns' = [turns EXCEPT ![p].tool[r] = "notified"]
          /\ onGeminiMessage(turns[p].inst, "error", ToolMsg(p, r))
     ELSE /\ turns' = [turns EXCEPT ![p].tool[r] = "notified"]
          /\ UNCHANGED <<tasks, localQueue>> /\ published' = {}
  /\ replies' = {}
  /\ UNCHANGED <<convs, messages, localWaiters, taskList, building, calls, pendingConfirm>>
  /\ UNCHANGED <<legacy, migrating, processConfig, agentConfig,
                 lastGetWorkspaceAbortController, abortedWorkspaceReads>>

\* ------------------------------------------------------------ confirmation
TurnOf(callId) == callId % 10
RoundOf(callId) == callId \div 10

\* mutant: a confirm whose callId is pending resolves every pending slot
resolvedAll(pending, callId) == IF callId \in pending THEN pending ELSE {}

\* mutant: a confirm whose callId is not pending resolves some pending slot
resolvedAny(pending, callId) ==
  IF callId \in pending THEN {callId}
  ELSE IF pending = {} THEN {} ELSE {CHOOSE c \in pending : TRUE}

\* the pending slots a confirm with callId resolves
resolved(pending, callId) == pending \cap {callId}

\* mutant: the envelope does not depend on the task being found
confirmResultFound(i) == "ok"

\* the envelope of confirmMessage: failure when no task is registered
confirmResult(i) == IF i = NoInst THEN "fail" ELSE "ok"

\* mutant: confirmMessage builds the task when none is registered, as
\* sendMessage does
ConfirmMessageRebuilds(p, id, callId, decision) ==
  /\ Idle(p)
  /\ LET i == getTaskById(taskList, id) IN
     IF i = NoInst
     THEN /\ convs[id] # NoConv
          /\ tasks' = [tasks EXCEPT ![p] = NewTask(convs[id], id)]
          /\ taskList' = buildConversation(taskList, id, p)
          /\ Return(p, "confirm", id, callId, "ok")
          /\ UNCHANGED <<pendingConfirm, turns, localQueue>> /\ published' = {}
     ELSE LET hit == resolved(pendingConfirm[i], callId) IN
          /\ Return(p, "confirm", id, callId, confirmResult(i))
          /\ pendingConfirm' = [pendingConfirm EXCEPT ![i] = @ \ hit]
          /\ turns' = [q \in Calls |->
                         [turns[q] EXCEPT !.tool = [r \in Rounds |->
                            IF CallId(q, r) \in hit
                            THEN (IF decision = "cancel" THEN "cancelled" ELSE "executing")
                            ELSE turns[q].tool[r]]]]
          /\ IF hit # {}
             THEN onGeminiMessage(i, "tool_group",
                                  ToolMsg(TurnOf(CHOOSE c \in hit : TRUE), RoundOf(CHOOSE c \in hit : TRUE)))
             ELSE UNCHANGED <<tasks, localQueue>> /\ published' = {}
          /\ UNCHANGED taskList
  /\ UNCHANGED <<convs, messages, localWaiters, building>>
  /\ UNCHANGED <<legacy, migrating, processConfig, agentConfig,
                 lastGetWorkspaceAbortController, abortedWorkspaceReads>>

\* confirmMessage: looks the task up and passes the decision to its worker,
\* where it resolves the slot registered under callId
ConfirmMessage(p, id, callId, decision) ==
  /\ Idle(p)
  /\ LET i == getTaskById(taskList, id) IN
     IF i = NoInst
     THEN /\ Return(p, "confirm", id, callId, confirmResult(i))
          /\ UNCHANGED <<pendingConfirm, turns, tasks, localQueue>> /\ published' = {}
     ELSE LET hit == resolved(pendingConfirm[i], callId) IN
          /\ Return(p, "confirm", id, callId, confirmResult(i))
          /\ pendingConfirm' = [pendingConfirm EXCEPT ![i] = @ \ hit]
          /\ turns' = [q \in Calls |->
                         [turns[q] EXCEPT !.tool = [r \in Rounds |->
                            IF CallId(q, r) \in hit
                            THEN (IF decision = "cancel" THEN "cancelled" ELSE "executing")
                            ELSE turns[q].tool[r]]]]
          /\ IF hit # {}
             THEN onGeminiMessage(i, "tool_group",
                                  ToolMsg(TurnOf(CHOOSE c \in hit : TRUE), RoundOf(CHOOSE c \in hit : TRUE)))
             ELSE UNCHANGED <<tasks, localQueue>> /\ published' = {}
  /\ UNCHANGED <<convs, messages, localWaiters, taskList, building>>
  /\ UNCHANGED <<legacy, migrating, processConfig, agentConfig,
                 lastGetWorkspaceAbortController, abortedWorkspaceReads>>

\* a reset or a confirm that has just returned leaves nothing behind: its call
\* slot names a later request
Forget(p) ==
  /\ calls[p].pc = "done"
  /\ \E r \in replies : r.call = p /\ r.op \in {"reset", "confirm"}
  /\ calls' = [calls EXCEPT ![p] = NoCall]
  /\ replies' = {}
  /\ published' = {}
  /\ UNCHANGED <<convs, messages, localQueue, localWaiters, taskList, tasks, building, turns,
                 pendingConfirm>>
  /\ UNCHANGED <<legacy, migrating, processConfig, agentConfig,
                 lastGetWorkspaceAbortController, abortedWorkspaceReads>>

\* --------------------------------------------------------- workspace reads
ReadWorkspaces == {"w1", "w2"}
ReadOutcomes == {"tree", "empty", "error"}

\* mutant: the controller of the previous request is left as it is
buildLastAbortControllerKeeps(p) ==
  /\ lastGetWorkspaceAbortController' = p
  /\ UNCHANGED abortedWorkspaceReads

\* buildLastAbortController: aborts the controller of the previous request and
\* makes a new one, the controller of request p, the last
buildLastAbortController(p) ==
  /\ abortedWorkspaceReads' = abortedWorkspaceReads \cup {lastGetWorkspaceAbortController}
  /\ lastGetWorkspaceAbortController' = p

\* getWorkspace(workspace): builds the controller and starts the directory read
GetWorkspace(p, workspace) ==
  /\ Idle(p)
  /\ calls' = [calls EXCEPT ![p] = [NoCall EXCEPT !.op = "getWorkspace", !.pc = "reading",
                                                  !.cid = workspace]]
  /\ buildLastAbortController(p)
  /\ replies' = {}
  /\ published' = {}
  /\ UNCHANGED <<convs, messages, localQueue, localWaiters, taskList, tasks, building, turns,
                 pendingConfirm>>
  /\ UNCHANGED <<legacy, migrating, processConfig, agentConfig>>

\* the read of request p settles: a reader whose controller was aborted rejects
\* with an error whose message holds 'aborted', which the provider answers with
\* the empty list; otherwise the tree ([res]), nothing ([]), or another error,
\* which the provider throws on
WorkspaceRead(p, out) ==
  /\ calls[p].op = "getWorkspace" /\ calls[p].pc = "reading"
  /\ Resume(p, IF p \in abortedWorkspaceReads \/ out = "empty" THEN "[]"
               ELSE IF out = "tree" THEN "[tree]" ELSE "threw")
  /\ published' = {}
  /\ UNCHANGED <<convs, messages, localQueue, localWaiters, taskList, tasks, building, turns,
                 pendingConfirm>>
  /\ UNCHANGED <<legacy, migrating, processConfig, agentConfig,
                 lastGetWorkspaceAbortController, abortedWorkspaceReads>>

CreateTypes == {"gemini", "acp", "bad"}
CreateModels == {"M1"}
Decisions == {"proceed", "cancel"}

\* the requests of the bridge, for conversations ids and message ids msgs
Requests(ids, msgs) ==
  \/ \E p \in Calls, id \in ids, t \in CreateTypes, m \in CreateModels : Create(p, id, t, m)
  \/ \E p \in Calls, id \in ids, t \in CreateTypes, m \in CreateModels : CreateWithConversation(p, id, t, m)
  \/ \E p \in Calls, id \in ids, ok \in BOOLEAN : Remove(p, id, ok)
  \/ \E p \in Calls, id \in ids, m \in Models \cup {"none"}, ok \in BOOLEAN : Update(p, id, m, ok)
  \/ \E p \in Calls, id \in ids : Reset(p, id)
  \/ \E p \in Calls : ResetAll(p)
  \/ \E p \in Calls, id \in ids, m \in msgs : SendMessage(p, id, m)
  \/ \E p \in Calls, id \in ids : ReloadContext(p, id)

\* the continuations of suspended requests, and the bootstrap of a task
Resumptions ==
  \/ \E q \in Calls : RebuildFinish(q)
  \/ \E p \in Calls, injected \in BOOLEAN : Reloaded(p, injected)
  \/ \E p \in Calls, ok \in BOOLEAN : CopyFiles(p, ok)
  \/ \E i \in Calls, ok \in BOOLEAN : Bootstrap(i, ok)
  \/ \E p \in Calls : SendFailed(p)
  \/ \E p \in Calls : SendForward(p)
  \/ LocalFinish

\* what the agent in the worker and its tool scheduler do
Agent ==
  \/ \E p \in Calls, o \in {"skip", "throw", "stream"} : AtCommand(p, o)
  \/ \E p \in Calls, r \in Rounds, t \in {"content", "thought"} : StreamEvent(p, r, t)
  \/ \E p \in Calls, r \in Rounds, o \in {"plain", "fail", "tools"} : StreamEnd(p, r, o)
  \/ \E p \in Calls, r \in Rounds, ok \in BOOLEAN : ScheduleReturn(p, r, ok)
  \/ \E p \in Calls, r \in Rounds : Finish(p, r)
  \/ \E p \in Calls, r \in Rounds,
        n \in {"awaiting_approval", "executing", "success", "error", "cancelled"},
        mapped \in BOOLEAN :
        ToolUpdate(p, r, n, mapped)
  \/ \E p \in Calls, r \in Rounds, o \in {"some", "none", "throw"} : AllToolCallsComplete(p, r, o)

Confirms(ids) ==
  \E p \in Calls, id \in ids, c \in {CallId(q, 0) : q \in Calls} \cup {UnknownCall}, d \in Decisions :
     ConfirmMessage(p, id, c, d)

\* every request on every conversation, the agents running their turns
Next ==
  \/ Requests(Ids, MsgIds)
  \/ \E p \in Calls, id \in Ids : Get(p, id)
  \/ \E p \in Calls, id \in Ids : GetAssociateConversation(p, id)
  \/ \E id \in Ids, ok \in BOOLEAN : Migrate(id, ok)
  \/ \E p \in Calls, id \in Ids : Stop(p, id)
  \/ Confirms(Ids)
  \/ Resumptions
  \/ Agent
  \/ \E p \in Calls, w \in ReadWorkspaces : GetWorkspace(p, w)
  \/ \E p \in Calls, out \in ReadOutcomes : WorkspaceRead(p, out)
Spec == Init /\ [][Next]_vars

\* the registry under every request on two conversations; the agents are silent
NextRegistry == Requests(Ids, {1}) \/ Resumptions
SpecRegistry == Init /\ [][NextRegistry]_vars

\* one conversation: sends, kill and rebuild, bootstrap that succeeds or fails,
\* turns that stream, fail or are skipped; no tool calls
NextTurn ==
  \/ \E p \in Calls, m \in MsgIds : SendMessage(p, "c1", m)
  \/ \E p \in Calls : Reset(p, "c1")
  \/ \E q \in Calls : RebuildFinish(q)
  \/ \E p \in Calls : CopyFiles(p, TRUE)
  \/ \E i \in Calls, ok \in BOOLEAN : Bootstrap(i, ok)
  \/ \E p \in Calls : SendFailed(p)
  \/ \E p \in Calls : SendForward(p)
  \/ LocalFinish
  \/ \E p \in Calls, o \in {"skip", "throw", "stream"} : AtCommand(p, o)
  \/ \E p \in Calls, t \in {"content", "thought"} : StreamEvent(p, 0, t)
  \/ \E p \in Calls, o \in {"plain", "fail"} : StreamEnd(p, 0, o)
  \/ \E p \in Calls : Finish(p, 0)
SpecTurn == Init /\ [][NextTurn]_vars

\* one conversation whose bootstrap succeeds: turns that request tool calls,
\* their approval, their completion and the continuation
NextTools ==
  \/ \E p \in Calls : SendMessage(p, "c1", 1)
  \/ Confirms({"c1"})
  \/ \E q \in Calls : RebuildFinish(q)
  \/ \E p \in Calls : CopyFiles(p, TRUE)
  \/ \E i \in Calls : Bootstrap(i, TRUE)
  \/ \E p \in Calls : SendForward(p)
  \/ LocalFinish
  \/ \E p \in Calls : AtCommand(p, "stream")
  \/ \E p \in Calls, r \in Rounds, o \in {"plain", "tools"} : StreamEnd(p, r, o)
  \/ \E p \in Calls, r \in Rounds : ScheduleReturn(p, r, TRUE)
  \/ \E p \in Calls, r \in Rounds, n \in {"awaiting_approval", "executing", "success", "error"} :
        ToolUpdate(p, r, n, TRUE)
  \/ \E p \in Calls, r \in Rounds, o \in {"some", "none"} : AllToolCallsComplete(p, r, o)
SpecTools == Init /\ [][NextTools]_vars

\* one conversation whose task is killed and rebuilt while tool calls await
\* approval; resets and confirms in any number
NextScope ==
  \/ \E p \in Calls : SendMessage(p, "c1", 1)
  \/ \E p \in Calls : Reset(p, "c1")
  \/ \E p \in Calls, c \in {CallId(q, 0) : q \in Calls}, d \in Decisions :
        ConfirmMessage(p, "c1", c, d)
  \/ \E p \in Calls : Forget(p)
  \/ \E q \in Calls : RebuildFinish(q)
  \/ \E p \in Calls : CopyFiles(p, TRUE)
  \/ \E i \in Calls : Bootstrap(i, TRUE)
  \/ \E p \in Calls : SendForward(p)
  \/ LocalFinish
  \/ \E p \in Calls : AtCommand(p, "stream")
  \/ \E p \in Calls : StreamEnd(p, 0, "tools")
  \/ \E p \in Calls, n \in {"awaiting_approval", "executing"} : ToolUpdate(p, 0, n, TRUE)
SpecScope == Init /\ [][NextScope]_vars

\* get on a conversation that is created, sent to and reset, and on one that
\* is not stored
NextGet ==
  \/ \E p \in Calls, id \in Ids : Get(p, id)
  \/ \E p \in Calls : Create(p, "c1", "gemini", "M1")
  \/ \E p \in Calls : Reset(p, "c1")
  \/ \E p \in Calls : SendMessage(p, "c1", 1)
  \/ \E q \in Calls : RebuildFinish(q)
  \/ \E p \in Calls : CopyFiles(p, TRUE)
  \/ \E i \in Calls, ok \in BOOLEAN : Bootstrap(i, ok)
  \/ \E p \in Calls : SendFailed(p)
  \/ \E p \in Calls : SendForward(p)
  \/ LocalFinish
  \/ \E p \in Calls : AtCommand(p, "stream")
  \/ \E p \in Calls, o \in {"plain", "fail"} : StreamEnd(p, 0, o)
  \/ \E p \in Calls : Finish(p, 0)
SpecGet == Init /\ [][NextGet]_vars

\* the envelopes of the requests: conversations with and without a task, with
\* and without a stored conversation, an unknown type, file copies that fail;
\* the agents are silent
NextEnvelope ==
  \/ \E p \in Calls, id \in Ids, t \in CreateTypes : Create(p, id, t, "M1")
  \/ \E p \in Calls, id \in Ids : Stop(p, id)
  \/ \E p \in Calls, id \in Ids : SendMessage(p, id, 1)
  \/ \E p \in Calls, id \in Ids : ReloadContext(p, id)
  \/ \E p \in Calls, id \in Ids : ConfirmMessage(p, id, UnknownCall, "proceed")
  \/ \E q \in Calls : RebuildFinish(q)
  \/ \E p \in Calls, injected \in BOOLEAN : Reloaded(p, injected)
  \/ \E p \in Calls, ok \in BOOLEAN : CopyFiles(p, ok)
  \/ \E i \in Calls : Bootstrap(i, TRUE)
SpecEnvelope == Init /\ [][NextEnvelope]_vars

\* stop on a conversation whose turns stream, fail, request tool calls and
\* continue; the queued writes are left in the queue
NextStop ==
  \/ \E p \in Calls : Stop(p, "c1")
  \/ \E p \in Calls : SendMessage(p, "c1", 1)
  \/ \E q \in Calls : RebuildFinish(q)
  \/ \E p \in Calls : CopyFiles(p, TRUE)
  \/ \E i \in Calls : Bootstrap(i, TRUE)
  \/ \E p \in Calls : SendForward(p)
  \/ \E p \in Calls, o \in {"skip", "stream"} : AtCommand(p, o)
  \/ \E p \in Calls, r \in Rounds, o \in {"plain", "fail", "tools"} : StreamEnd(p, r, o)
  \/ \E p \in Calls, r \in Rounds : ScheduleReturn(p, r, TRUE)
  \/ \E p \in Calls, r \in Rounds : Finish(p, r)
  \/ \E p \in Calls, r \in Rounds, n \in {"executing", "success", "cancelled"} : ToolUpdate(p, r, n, TRUE)
  \/ \E p \in Calls, r \in Rounds, o \in {"some", "none"} : AllToolCallsComplete(p, r, o)
SpecStop == Init /\ [][NextStop]_vars

\* the two stores: every conversation is in the structured store, in the
\* legacy store, in both (with one workspace) or in neither
Workspaces == {"w1", "w2", "none"}
StoreConvs == {NoConv} \cup {[type |-> "gemini", model |-> m, workspace |-> w] :
                                m \in Models, w \in Workspaces}

InitStore ==
  /\ convs \in [Ids -> StoreConvs]
  /\ legacy \in [Ids -> StoreConvs]
  /\ \A id \in Ids : (convs[id] # NoConv /\ legacy[id] # NoConv)
                       => convs[id].workspace = legacy[id].workspace
  /\ migrating = {}
  /\ processConfig = NoConfig
  /\ agentConfig = [i \in Calls |-> NoAgentConfig]
  /\ messages = EmptyBag
  /\ localQueue = {}
  /\ localWaiters = {}
  /\ taskList = <<>>
  /\ tasks = [i \in Calls |-> NoTask]
  /\ building = {}
  /\ calls = [p \in Calls |-> NoCall]
  /\ turns = [p \in Calls |-> NoTurn]
  /\ pendingConfirm = [i \in Calls |-> {}]
  /\ lastGetWorkspaceAbortController = 0
  /\ abortedWorkspaceReads = {}
  /\ published = {}
  /\ replies = {}

\* reads, removals and sends on conversations held by either store, and the
\* migrations the reads start
NextStore ==
  \/ \E p \in Calls, id \in Ids : Get(p, id)
  \/ \E p \in Calls, id \in Ids : GetAssociateConversation(p, id)
  \/ \E id \in Ids, ok \in BOOLEAN : Migrate(id, ok)
  \/ \E p \in Calls, id \in Ids, ok \in BOOLEAN : Remove(p, id, ok)
  \/ \E p \in Calls, id \in Ids : SendMessage(p, id, 1)
  \/ \E q \in Calls : RebuildFinish(q)
SpecStore == InitStore /\ [][NextStore]_vars

\* one conversation whose turns fail: a stream that throws, a scheduler that
\* rejects, completed tool calls whose handling throws; the queued writes are
\* left in the queue
NextFail ==
  \/ \E p \in Calls : SendMessage(p, "c1", 1)
  \/ \E q \in Calls : RebuildFinish(q)
  \/ \E p \in Calls : CopyFiles(p, TRUE)
  \/ \E i \in Calls : Bootstrap(i, TRUE)
  \/ \E p \in Calls : SendForward(p)
  \/ \E p \in Calls : AtCommand(p, "stream")
  \/ \E p \in Calls, r \in Rounds, o \in {"plain", "fail", "tools"} : StreamEnd(p, r, o)
  \/ \E p \in Calls, r \in Rounds, ok \in BOOLEAN : ScheduleReturn(p, r, ok)
  \/ \E p \in Calls, r \in Rounds : Finish(p, r)
  \/ \E p \in Calls, r \in Rounds, n \in {"executing", "success"} : ToolUpdate(p, r, n, TRUE)
  \/ \E p \in Calls, r \in Rounds, o \in {"some", "throw"} : AllToolCallsComplete(p, r, o)
SpecFail == Init /\ [][NextFail]_vars

\* one conversation whose turns request tool calls: every progress update of
\* the scheduler, mapped to its display or not, and the approvals; the queued
\* writes are left in the queue and the responses are not resubmitted
NextUpdate ==
  \/ \E p \in Calls : SendMessage(p, "c1", 1)
  \/ \E p \in Calls, c \in {CallId(q, 0) : q \in Calls}, d \in Decisions :
        ConfirmMessage(p, "c1", c, d)
  \/ \E q \in Calls : RebuildFinish(q)
  \/ \E p \in Calls : CopyFiles(p, TRUE)
  \/ \E i \in Calls : Bootstrap(i, TRUE)
  \/ \E p \in Calls : SendForward(p)
  \/ \E p \in Calls : AtCommand(p, "stream")
  \/ \E p \in Calls, o \in {"plain", "tools"} : StreamEnd(p, 0, o)
  \/ \E p \in Calls : ScheduleReturn(p, 0, TRUE)
  \/ \E p \in Calls, n \in {"awaiting_approval", "executing", "success", "error"},
        mapped \in BOOLEAN :
        ToolUpdate(p, 0, n, mapped)
SpecUpdate == Init /\ [][NextUpdate]_vars

\* the stored configurations: 'mcp.config' unreadable, absent, not a list, or a
\* list of up to MaxServers servers with distinct names; the image generation
\* model unreadable, absent, or stored with its switch on or off
MaxServers == 2
ServerSet == [name : Servers, enabled : BOOLEAN, status : {"connected", "disconnected"},
              transport : {"stdio", "sse"}, command : {"run"}]
ServerLists ==
  {l \in UNION {[1..n -> ServerSet] : n \in 0..MaxServers} :
     \A j, k \in 1..Len(l) : j # k => l[j].name # l[k].name}
McpConfigs ==
  {[kind |-> k, list |-> <<>>] : k \in {"unreadable", "absent", "object"}}
    \cup {[kind |-> "list", list |-> l] : l \in ServerLists}
ImageConfigs ==
  {[kind |-> k, switch |-> FALSE, name |-> "none"] : k \in {"unreadable", "absent"}}
    \cup {[kind |-> "model", switch |-> b, name |-> "IMG"] : b \in BOOLEAN}

InitConfig ==
  /\ convs = [id \in Ids |-> IF id = "c1" THEN NewConv("gemini", "M1") ELSE NoConv]
  /\ legacy = [id \in Ids |-> NoConv]
  /\ migrating = {}
  /\ processConfig \in [mcp : McpConfigs, image : ImageConfigs]
  /\ agentConfig = [i \in Calls |-> NoAgentConfig]
  /\ messages = EmptyBag
  /\ localQueue = {}
  /\ localWaiters = {}
  /\ taskList = <<>>
  /\ tasks = [i \in Calls |-> NoTask]
  /\ building = {}
  /\ calls = [p \in Calls |-> NoCall]
  /\ turns = [p \in Calls |-> NoTurn]
  /\ pendingConfirm = [i \in Calls |-> {}]
  /\ lastGetWorkspaceAbortController = 0
  /\ abortedWorkspaceReads = {}
  /\ published = {}
  /\ replies = {}

\* tasks built for one conversation under each stored configuration, their
\* bootstrap succeeding or failing
NextConfig ==
  \/ \E p \in Calls : SendMessage(p, "c1", 1)
  \/ \E p \in Calls : Reset(p, "c1")
  \/ \E q \in Calls : RebuildFinish(q)
  \/ \E i \in Calls, ok \in BOOLEAN : Bootstrap(i, ok)
SpecConfig == InitConfig /\ [][NextConfig]_vars

\* two stored conversations
InitFrame ==
  /\ convs = [id \in Ids |-> NewConv("gemini", "M1")]
  /\ legacy = [id \in Ids |-> NoConv]
  /\ migrating = {}
  /\ processConfig = NoConfig
  /\ agentConfig = [i \in Calls |-> NoAgentConfig]
  /\ messages = EmptyBag
  /\ localQueue = {}
  /\ localWaiters = {}
  /\ taskList = <<>>
  /\ tasks = [i \in Calls |-> NoTask]
  /\ building = {}
  /\ calls = [p \in Calls |-> NoCall]
  /\ turns = [p \in Calls |-> NoTurn]
  /\ pendingConfirm = [i \in Calls |-> {}]
  /\ lastGetWorkspaceAbortController = 0
  /\ abortedWorkspaceReads = {}
  /\ published = {}
  /\ replies = {}

\* two conversations side by side: sends, turns that stream and ask for an
\* approval, and every request that names one conversation
NextFrame ==
  \/ \E p \in Calls, id \in Ids : SendMessage(p, id, 1)
  \/ \E p \in Calls, id \in Ids : ConfirmMessage(p, id, CallId(1, 0), "proceed")
  \/ \E p \in Calls, id \in Ids : Stop(p, id)
  \/ \E p \in Calls, id \in Ids : Update(p, id, "M2", TRUE)
  \/ \E p \in Calls, id \in Ids : Remove(p, id, TRUE)
  \/ \E p \in Calls, id \in Ids : Reset(p, id)
  \/ \E q \in Calls : RebuildFinish(q)
  \/ \E p \in Calls : CopyFiles(p, TRUE)
  \/ \E i \in Calls : Bootstrap(i, TRUE)
  \/ \E p \in Calls : SendForward(p)
  \/ LocalFinish
  \/ \E p \in Calls : AtCommand(p, "stream")
  \/ \E p \in Calls, o \in {"plain", "tools"} : StreamEnd(p, 0, o)
  \/ \E p \in Calls : ToolUpdate(p, 0, "awaiting_approval", TRUE)
SpecFrame == InitFrame /\ [][NextFrame]_vars

\* one conversation, two sends with msg_ids of their own: turns that fail to open their stream, stream,
\* fail, schedule tool calls and continue, every stream and every scheduling
\* coming to an end; the queued writes are left in the queue
TwoCalls == {1, 2}
NextLive ==
  \/ \E p \in TwoCalls : SendMessage(p, "c1", p)
  \/ \E q \in TwoCalls : RebuildFinish(q)
  \/ \E p \in TwoCalls : CopyFiles(p, TRUE)
  \/ \E i \in TwoCalls : Bootstrap(i, TRUE)
  \/ \E p \in TwoCalls : SendForward(p)
  \/ \E p \in TwoCalls, o \in {"throw", "stream"} : AtCommand(p, o)
  \/ \E p \in TwoCalls, r \in Rounds : StreamEvent(p, r, "content")
  \/ \E p \in TwoCalls, r \in Rounds, o \in {"plain", "fail", "tools"} : StreamEnd(p, r, o)
  \/ \E p \in TwoCalls, r \in Rounds, ok \in BOOLEAN : ScheduleReturn(p, r, ok)
  \/ \E p \in TwoCalls, r \in Rounds : Finish(p, r)
  \/ \E p \in TwoCalls, r \in Rounds, n \in {"executing", "success"} : ToolUpdate(p, r, n, TRUE)
  \/ \E p \in TwoCalls, r \in Rounds : AllToolCallsComplete(p, r, "some")

\* the promise chain of a started round runs to its end: the model stream
\* terminates, the scheduler takes up the calls and settles schedule(), and
\* the finally of submitQuery runs
FairLive ==
  \A p \in TwoCalls, r \in Rounds :
    /\ WF_vars(\E o \in {"plain", "fail", "tools"} : StreamEnd(p, r, o))
    /\ WF_vars(\E n \in {"executing", "success"} : ToolUpdate(p, r, n, TRUE))
    /\ WF_vars(\E ok \in BOOLEAN : ScheduleReturn(p, r, ok))
    /\ WF_vars(Finish(p, r))
SpecLive == Init /\ [][NextLive]_vars /\ FairLive

\* one conversation, two sends: a bootstrap that succeeds or fails, command
\* pre-processing that lets the query through or not, streams that end or fail
NextPending ==
  \/ \E p \in TwoCalls : SendMessage(p, "c1", p)
  \/ \E q \in TwoCalls : RebuildFinish(q)
  \/ \E p \in TwoCalls : CopyFiles(p, TRUE)
  \/ \E i \in TwoCalls, ok \in BOOLEAN : Bootstrap(i, ok)
  \/ \E p \in TwoCalls : SendFailed(p)
  \/ \E p \in TwoCalls : SendForward(p)
  \/ LocalFinish
  \/ \E p \in TwoCalls, o \in {"skip", "stream"} : AtCommand(p, o)
  \/ \E p \in TwoCalls, o \in {"plain", "fail"} : StreamEnd(p, 0, o)
  \/ \E p \in TwoCalls : Finish(p, 0)

\* nothing that can go on waits for ever: rebuilds, file copies, the
\* bootstrap, the writes and the steps of every send and turn
FairPending ==
  /\ WF_vars(LocalFinish)
  /\ \A p \in TwoCalls :
       /\ WF_vars(RebuildFinish(p))
       /\ WF_vars(CopyFiles(p, TRUE))
       /\ WF_vars(\E ok \in BOOLEAN : Bootstrap(p, ok))
       /\ WF_vars(SendFailed(p))
       /\ WF_vars(SendForward(p))
       /\ WF_vars(\E o \in {"skip", "stream"} : AtCommand(p, o))
       /\ WF_vars(\E o \in {"plain", "fail"} : StreamEnd(p, 0, o))
       /\ WF_vars(Finish(p, 0))
SpecPending == Init /\ [][NextPending]_vars /\ FairPending

\* one conversation whose history is injected at bootstrap and by
\* reloadContext, and the sends that follow
NextPrefix ==
  \/ \E p \in Calls, m \in MsgIds : SendMessage(p, "c1", m)
  \/ \E p \in Calls : ReloadContext(p, "c1")
  \/ \E q \in Calls : RebuildFinish(q)
  \/ \E p \in Calls, injected \in BOOLEAN : Reloaded(p, injected)
  \/ \E p \in Calls : CopyFiles(p, TRUE)
  \/ \E i \in Calls : Bootstrap(i, TRUE)
  \/ \E p \in Calls : SendForward(p)
  \/ LocalFinish
  \/ \E p \in Calls, o \in {"skip", "stream"} : AtCommand(p, o)
  \/ \E p \in Calls, o \in {"plain", "fail"} : StreamEnd(p, 0, o)
  \/ \E p \in Calls : Finish(p, 0)
SpecPrefix == Init /\ [][NextPrefix]_vars

\* workspace reads of two workspaces, each settling in every way
NextWorkspace ==
  \/ \E p \in Calls, w \in ReadWorkspaces : GetWorkspace(p, w)
  \/ \E p \in Calls, out \in ReadOutcomes : WorkspaceRead(p, out)
SpecWorkspace == Init /\ [][NextWorkspace]_vars

\* the stored messages that the history is read from: n messages of content
\* length len, every k-th one (k > 0) a tool message, users and assistant
\* taking turns
MaxHist == 22
HistLens == {0, 1, 180, 200, 3994, 3995, 5000}
StoredHistory(n, len, k) ==
  SetToBag({[id |-> 500 + j, msg_id |-> 500 + j,
             type |-> IF k > 0 /\ j % k = 0 THEN "tool_group" ELSE "text",
             position |-> IF j % 2 = 1 THEN "right" ELSE "left",
             conversation_id |-> "c1", at |-> j, len |-> len] : j \in 1..n})

InitHistory ==
  /\ convs = [id \in Ids |-> IF id = "c1" THEN NewConv("gemini", "M1") ELSE NoConv]
  /\ legacy = [id \in Ids |-> NoConv]
  /\ migrating = {}
  /\ processConfig = NoConfig
  /\ agentConfig = [i \in Calls |-> NoAgentConfig]
  /\ \E n \in 0..MaxHist, len \in HistLens, k \in 0..3 : messages = StoredHistory(n, len, k)
  /\ localQueue = {}
  /\ localWaiters = {}
  /\ taskList = <<>>
  /\ tasks = [i \in Calls |-> NoTask]
  /\ building = {}
  /\ calls = [p \in Calls |-> NoCall]
  /\ turns = [p \in Calls |-> NoTurn]
  /\ pendingConfirm = [i \in Calls |-> {}]
  /\ lastGetWorkspaceAbortController = 0
  /\ abortedWorkspaceReads = {}
  /\ published = {}
  /\ replies = {}

\* a conversation with stored history: its task is rebuilt, bootstraps and
\* reloads its context
NextHistory ==
  \/ \E p \in Calls : ReloadContext(p, "c1")
  \/ \E q \in Calls : RebuildFinish(q)
  \/ \E i \in Calls : Bootstrap(i, TRUE)
  \/ \E p \in Calls : Reloaded(p, TRUE)
SpecHistory == InitHistory /\ [][NextHistory]_vars

\* ------------------------------------------------------------- properties
Terminal == {"finished", "error"}

\* a send on conversation id passes from the bridge into its task in this step
SendsOn(id) ==
  \E p \in Calls : /\ calls[p].op = "send" /\ calls[p].pc = "resolved" /\ calls[p].cid = id
                   /\ calls'[p].pc # "resolved"

\* the registry entry of id changes in this step (build, rebuild or kill)
Rebuilds(id) == getTaskById(taskList', id) # getTaskById(taskList, id)

ErrorEvent(i, id, m) ==
  [by |-> i, ev |-> [type |-> "error", msg_id |-> m, conversation_id |-> id]]

\* C1: the registry never holds more than one task under one conversation id,
\* whatever creates, sends and reloads race on that id
C1_AtMostOneTask == \A id \in Ids : Len(Entries(taskList, id)) <= 1

\* a sendMessage and a reloadContext that both needed the lazy rebuild of the
\* same id hold the one registered task
C1_Witness ==
  \E p, q \in Calls :
    /\ calls[p].op = "send" /\ calls[q].op = "reload"
    /\ calls[p].pc = "resolved" /\ calls[q].pc = "resolved"
    /\ calls[p].cid = calls[q].cid /\ calls[p].task = calls[q].task
    /\ calls[p].task \in {p, q}
    /\ InstsOf(taskList, calls[p].cid) = {calls[p].task}

\* C2: two sends that wait for the rebuild of the same conversation leave the
\* wait in the same step, with the same task, the only one built by that step
\* and the one registered under the id
C2_SharedRebuild ==
  [][\A p, q \in Calls :
       (/\ p # q
        /\ calls[p].op = "send" /\ calls[q].op = "send"
        /\ calls[p].pc = "awaitBuild" /\ calls[q].pc = "awaitBuild"
        /\ calls[p].cid = calls[q].cid
        /\ calls'[p].pc # "awaitBuild")
       => /\ calls'[q].pc = calls'[p].pc
          /\ calls'[q].task = calls'[p].task
          /\ calls'[p].pc = "resolved" =>
               /\ getTaskById(taskList', calls[p].cid) = calls'[p].task
               /\ {i \in Calls : tasks'[i] # tasks[i]} = {calls'[p].task}]_vars

\* two sends resumed from one rebuild, holding the task that rebuild built
C2_Witness ==
  \E p, q \in Calls :
    /\ p < q
    /\ calls[p].op = "send" /\ calls[q].op = "send"
    /\ calls[p].pc = "resolved" /\ calls[q].pc = "resolved"
    /\ calls[p].cid = calls[q].cid
    /\ calls[p].task = p /\ calls[q].task = p
    /\ tasks[p].alive

\* C3: a message id is never stored twice in a conversation; the step in which
\* a send enters its task leaves the message stored exactly once; and a message
\* stored once stays stored once, whatever the backend does afterwards
C3_StoredOnce ==
  [][\A id \in Ids, m \in MsgIds :
       /\ Count(messages', id, m) <= 1
       /\ Count(messages, id, m) = 1 => Count(messages', id, m) = 1
       /\ (\E p \in Calls : /\ calls[p].op = "send" /\ calls[p].pc = "resolved"
                            /\ calls[p].cid = id /\ calls[p].mid = m
                            /\ calls'[p].pc # "resolved")
          => Count(messages', id, m) = 1]_vars

\* the same msg_id sent twice, one of the sends already failed by the backend
C3_Witness ==
  \E p, q \in Calls :
    /\ p # q
    /\ calls[p].op = "send" /\ calls[q].op = "send"
    /\ calls[p].cid = calls[q].cid /\ calls[p].mid = calls[q].mid
    /\ calls[p].pc = "localFinish"
    /\ calls[q].pc \in {"awaitBootstrap", "localFinish"}
    /\ Count(messages, calls[p].cid, calls[p].mid) = 1

\* C4: a send whose task failed to bootstrap republishes, in the step that
\* takes it out of the wait for bootstrap, exactly one event: the error event
\* tagged with its msg_id; its later completion publishes nothing; and all along
\* the conversation holds exactly one message with that id
C4_OneErrorOneMessage ==
  [][\A p \in Calls :
       LET i == calls[p].task
           id == calls[p].cid
           m == calls[p].mid
       IN /\ (/\ calls[p].pc = "awaitBootstrap" /\ tasks[i].boot = "failed"
              /\ calls'[p].pc # "awaitBootstrap")
             => /\ published' = {ErrorEvent(i, id, m)}
                /\ calls'[p].pc = "localFinish"
                /\ Count(messages', id, m) = 1
          /\ (calls[p].pc = "localFinish" /\ calls'[p].pc # "localFinish")
             => /\ published' = {}
                /\ Count(messages', id, m) = 1
                /\ \E r \in replies' : r.call = p /\ r.res = "fail"]_vars

\* the error event of a failed bootstrap has just been republished
C4_Witness ==
  \E p \in Calls :
    /\ calls[p].pc = "localFinish"
    /\ tasks[calls[p].task].boot = "failed"
    /\ published = {ErrorEvent(calls[p].task, calls[p].cid, calls[p].mid)}
    /\ Count(messages, calls[p].cid, calls[p].mid) = 1

\* C5: when a send rejects, the error message of its msg_id is in the store
C5_RejectAfterStored ==
  \A r \in replies :
    (r.op = "send" /\ r.res = "fail")
    => Count(messages, r.cid, RespId(r.key, "error")) = 1

\* a send has just rejected
C5_Witness ==
  \E r \in replies :
    /\ r.op = "send" /\ r.res = "fail"
    /\ \E x \in BagToSet(messages) :
         x.type = "tips" /\ x.msg_id = r.key /\ x.conversation_id = r.cid

\* C6, as claimed: a conversation whose status is terminal leaves the terminal
\* statuses only in a step that passes a new send to the task or that changes
\* the registered task
C6_Claimed ==
  [][\A id \in Ids :
       (/\ Observed(tasks, taskList, id) \in Terminal
        /\ getTaskById(taskList, id) # NoInst
        /\ Observed(tasks', taskList', id) \notin Terminal)
       => SendsOn(id) \/ Rebuilds(id)]_vars

\* C7: the status of a conversation goes from a terminal status to pending only
\* in a step that passes a new send to the task or that changes the registered
\* task
C7_PendingOnlyBySend ==
  [][\A id \in Ids :
       (/\ Observed(tasks, taskList, id) \in Terminal
        /\ Observed(tasks', taskList', id) = "pending")
       => SendsOn(id) \/ Rebuilds(id)]_vars

\* a task whose earlier turn finished is pending again, a later send waiting
\* for its bootstrap
C7_Witness ==
  \E p, q \in Calls :
    /\ p # q
    /\ turns[q].phase[0] = "finished"
    /\ calls[p].op = "send" /\ calls[p].pc = "awaitBootstrap"
    /\ calls[p].task = turns[q].inst
    /\ tasks[calls[p].task].status = "pending"
    /\ getTaskById(taskList, calls[p].cid) = calls[p].task

\* C8, as claimed: when an event is republished, the status of the task that
\* republishes it is already the one the event stands for
C8_Claimed ==
  [][\A e \in published' :
       /\ e.ev.type = "start" => tasks'[e.by].status = "running"
       /\ e.ev.type = "finish" => tasks'[e.by].status = "finished"
       /\ e.ev.type = "error" => tasks'[e.by].status = "error"]_vars

\* C9: a confirm whose callId is not pending on the task (already resolved, or
\* never registered) changes nothing, resolves no pending slot, publishes
\* nothing and returns success
C9_ConfirmNoOp ==
  [][\A r \in replies' :
       LET i == getTaskById(taskList, r.cid)
       IN (r.op = "confirm" /\ i # NoInst /\ r.key \notin pendingConfirm[i])
          => /\ r.res = "ok"
             /\ published' = {}
             /\ UNCHANGED <<pendingConfirm, turns, tasks, taskList, messages, localQueue,
                            localWaiters, convs, building>>]_vars

\* a second confirm of a call that an earlier confirm cancelled
C9_Witness ==
  \E r \in replies :
    LET i == getTaskById(taskList, r.cid)
    IN /\ r.op = "confirm" /\ r.res = "ok" /\ i # NoInst
       /\ r.key # UnknownCall
       /\ turns[TurnOf(r.key)].inst = i
       /\ turns[TurnOf(r.key)].tool[RoundOf(r.key)] = "cancelled"
       /\ r.key \notin pendingConfirm[i]
       /\ published = {}

C11_OwnKeyOnly ==
  [][/\ \A i \in Calls : \A c \in pendingConfirm[i] \ pendingConfirm'[i] :
          \E r \in replies' : r.op = "confirm" /\ r.key = c /\ r.res = "ok"
     /\ \A r \in replies' :
          r.op = "confirm" =>
            /\ \A i \in Calls : pendingConfirm[i] \ pendingConfirm'[i] \subseteq {r.key}
            /\ \A q \in Calls, n \in Rounds :
                 IF /\ CallId(q, n) = r.key /\ turns[q].inst # NoInst
                    /\ turns[q].inst = getTaskById(taskList, r.cid)
                    /\ r.key \in pendingConfirm[turns[q].inst]
                 THEN /\ turns[q].tool[n] = "awaiting_approval"
                      /\ turns'[q].tool[n] \in {"executing", "cancelled"}
                 ELSE turns'[q].tool[n] = turns[q].tool[n]]_vars

\* a confirm has just resolved the slot of its callId while the tool call of
\* another turn of the same task still awaits approval
C11_Witness ==
  \E r \in replies :
    LET i == getTaskById(taskList, r.cid)
        q == TurnOf(r.key)
    IN /\ r.op = "confirm" /\ r.res = "ok" /\ i # NoInst
       /\ r.key # UnknownCall
       /\ turns[q].inst = i
       /\ turns[q].tool[RoundOf(r.key)] \in {"executing", "cancelled"}
       /\ published # {}
       /\ \E c \in pendingConfirm[i] :
            c # r.key /\ turns[TurnOf(c)].tool[RoundOf(c)] = "awaiting_approval"

\* C12: the pending confirmations of a task are callIds of turns running on
\* that task, and a killed task has none; a confirm builds and registers no
\* task, fails when no task is registered under the id, and touches only the
\* pending slots and tool calls of the task registered under the id: a callId
\* that belongs to no turn of that task resolves nothing
C12_InstanceScoped ==
  [][/\ \A i \in Calls :
          /\ pendingConfirm'[i] \subseteq
               {CallId(q, n) : q \in {t \in Calls : turns'[t].inst = i}, n \in Rounds}
          /\ ~tasks'[i].alive => pendingConfirm'[i] = {}
     /\ \A r \in replies' :
          r.op = "confirm" =>
            LET i == getTaskById(taskList, r.cid) IN
            /\ taskList' = taskList /\ building' = building
            /\ \A j \in Calls : tasks'[j].alive = tasks[j].alive
            /\ i = NoInst => (r.res = "fail" /\ UNCHANGED <<pendingConfirm, turns, tasks>>)
            /\ \A j \in Calls \ {i} : pendingConfirm'[j] = pendingConfirm[j]
            /\ \A q \in Calls : turns[q].inst # i => turns'[q] = turns[q]
            /\ (i # NoInst /\ turns[TurnOf(r.key)].inst # i)
               => (UNCHANGED <<pendingConfirm, turns, tasks>> /\ published' = {})]_vars

\* a confirm carrying the callId of a turn of a killed task has just returned
\* from the rebuilt task, whose own tool call still awaits approval
C12_Witness ==
  \E r \in replies :
    LET i == getTaskById(taskList, r.cid)
        q == TurnOf(r.key)
    IN /\ r.op = "confirm" /\ r.res = "ok"
       /\ i # NoInst /\ i # q
       /\ tasks[q].id = r.cid /\ ~tasks[q].alive /\ tasks[q].boot = "ok"
       /\ tasks[i].alive
       /\ published = {}
       /\ \E c \in pendingConfirm[i] : turns[TurnOf(c)].tool[RoundOf(c)] = "awaiting_approval"

\* C13: an update that changes the stored model leaves no task registered
\* under the id and no task of the id alive in the registry's place; and a send
\* that had to wait for a rebuild resumes with a registered, live task built
\* with the model stored at that moment
C13_ModelChangeRebuilds ==
  [][/\ \A r \in replies' :
          (r.op = "update" /\ r.res = "true" /\ convs'[r.cid].model # convs[r.cid].model)
          => /\ getTaskById(taskList', r.cid) = NoInst
             /\ \A i \in InstsOf(taskList, r.cid) : ~tasks'[i].alive
     /\ \A p \in Calls :
          (/\ calls[p].op = "send" /\ calls[p].pc = "awaitBuild"
           /\ calls'[p].pc = "resolved")
          => LET i == calls'[p].task IN
             /\ getTaskById(taskList', calls[p].cid) = i
             /\ tasks'[i].alive /\ tasks'[i].id = calls[p].cid
             /\ tasks'[i].model = convs[calls[p].cid].model]_vars

\* a send holds a task rebuilt with M2 for a conversation whose earlier task,
\* built with M1, was killed
C13_Witness ==
  \E p, j \in Calls :
    LET i == calls[p].task IN
    /\ calls[p].op = "send" /\ calls[p].pc = "resolved"
    /\ i = p /\ i # j
    /\ tasks[i].alive /\ tasks[i].model = "M2"
    /\ convs[calls[p].cid].model = "M2"
    /\ getTaskById(taskList, calls[p].cid) = i
    /\ tasks[j].id = calls[p].cid /\ ~tasks[j].alive /\ tasks[j].model = "M1"

\* C14: get returns nothing for a conversation that is not stored; otherwise
\* it returns the status of the task registered under the id when there is one
\* and its status is set, and finished when there is none or its status is not
\* set; and it changes neither the registry nor any task
C14_GetOverlay ==
  [][\A r \in replies' :
       r.op = "get" =>
         LET i == getTaskById(taskList, r.cid) IN
         /\ r.res = (IF convs[r.cid] = NoConv THEN "absent"
                     ELSE IF i # NoInst /\ tasks[i].status \in {"pending", "running", "finished"}
                     THEN tasks[i].status
                     ELSE "finished")
         /\ UNCHANGED <<taskList, tasks, building, convs, turns, pendingConfirm>>]_vars

\* get has just returned finished for a conversation whose task was created
\* and has not been sent to
C14_Witness ==
  \E r \in replies :
    LET i == getTaskById(taskList, r.cid) IN
    /\ r.op = "get" /\ r.res = "finished"
    /\ i # NoInst /\ tasks[i].alive /\ tasks[i].status = "none"
    /\ \A p \in Calls : calls[p].op # "send"

\* C15: the history text is made from text messages only, at most 20 of them,
\* the last ones stored; it is never longer than 4000 characters; it is empty
\* exactly when the conversation has no text message; and a task holds an
\* injected history only when that text is not empty
C15_HistoryCapped ==
  \A id \in Ids :
    LET all == inOrder(TextOf(messages, id))
        h == historyLines(messages, id)
    IN /\ Len(h) <= 20
       /\ \A k \in 1..Len(h) : h[k].type = "text" /\ h[k] = all[Len(all) - Len(h) + k]
       /\ historyText(messages, id) <= 4000
       /\ historyText(messages, id) = 0 <=> ~HasText(messages, id)
       /\ \A i \in Calls : (tasks[i].armed /\ tasks[i].id = id) => historyText(messages, id) > 0

\* a task holds the history of a conversation with more than 20 text messages
\* whose last 20 lines are longer than 4000 characters
C15_Witness ==
  \E i \in Calls :
    /\ tasks[i].armed /\ tasks[i].id = "c1"
    /\ Cardinality(TextOf(messages, "c1")) > 20
    /\ joinLen(historyLines(messages, "c1")) > 4000
    /\ historyText(messages, "c1") = 4000

\* C16: the step in which a send enters its task stores the user message and
\* sets the status to pending, and forwards and publishes nothing; so while a
\* send waits for bootstrap, is forwarded, or waits to reject after a failed
\* bootstrap, its user message is stored
C16_PersistBeforeBootstrap ==
  [][\A p \in Calls :
       LET i == calls[p].task
           id == calls[p].cid
           m == calls[p].mid
       IN /\ (calls[p].op = "send" /\ calls[p].pc = "resolved" /\ calls'[p].pc # "resolved")
             => /\ calls'[p].pc = "awaitBootstrap"
                /\ Count(messages', id, m) = 1
                /\ UserMessage(id, m) \in BagToSet(messages')
                /\ tasks'[i].status = "pending"
                /\ turns' = turns /\ published' = {} /\ tasks'[i].boot = tasks[i].boot
          /\ calls'[p].pc \in {"awaitBootstrap", "awaitSend", "localFinish"}
             => Count(messages', calls'[p].cid, calls'[p].mid) = 1
          /\ \A e \in published' :
               (e.ev.type = "error" /\ e.by = i /\ calls[p].pc = "awaitBootstrap"
                /\ calls'[p].pc = "localFinish")
               => Count(messages', id, m) = 1]_vars

\* the bootstrap of a task failed after a send had entered it: the user message
\* is stored, the status is pending, the send waits to reject
C16_Witness ==
  \E p \in Calls :
    LET i == calls[p].task IN
    /\ calls[p].op = "send" /\ calls[p].pc = "localFinish"
    /\ tasks[i].boot = "failed" /\ tasks[i].status = "pending"
    /\ UserMessage(calls[p].cid, calls[p].mid) \in BagToSet(messages)
    /\ turns[p] = NoTurn

\* C17: the bootstrap of a task settles once (from pending to ok or failed,
\* never again); a send is forwarded to the backend only in a step in which the
\* bootstrap of its task has succeeded; a turn runs only on a task whose
\* bootstrap succeeded; and on a task whose bootstrap failed no send is
\* forwarded
C17_BootstrapOnceAwaited ==
  [][/\ \A i \in Calls :
          /\ tasks[i].boot \in {"ok", "failed"} => tasks'[i].boot = tasks[i].boot
          /\ tasks'[i].boot # tasks[i].boot
             => \/ tasks[i].boot = "none" /\ tasks'[i].boot = "pending"
                \/ tasks[i].boot = "pending" /\ tasks'[i].boot \in {"ok", "failed"}
     /\ \A p \in Calls :
          /\ (calls[p].pc = "awaitBootstrap" /\ calls'[p].pc = "awaitSend")
             => tasks[calls[p].task].boot = "ok"
          /\ calls'[p].pc = "awaitSend" => tasks'[calls'[p].task].boot = "ok"
          /\ turns'[p].inst # NoInst => tasks'[turns'[p].inst].boot = "ok"
          /\ (calls[p].pc = "awaitBootstrap" /\ tasks[calls[p].task].boot = "failed")
             => calls'[p].pc \in {"awaitBootstrap", "localFinish"}]_vars

\* two sends on one task: bootstrap failed, one send has rejected, the other
\* still waits, and none was forwarded
C17_Witness ==
  \E p \in Calls, r \in replies :
    /\ r.op = "send" /\ r.res = "fail" /\ r.call # p
    /\ calls[p].op = "send" /\ calls[p].pc \in {"awaitBootstrap", "localFinish"}
    /\ tasks[calls[p].task].boot = "failed"
    /\ \A q \in Calls : turns[q] = NoTurn

\* C18: when the tool call of a round is complete, its response is submitted
\* as the next round exactly when the call is not cancelled; that round runs
\* under the prompt id of the round that requested the call and is marked as a
\* continuation, so it starts no new prompt; a cancelled call starts nothing
C18_ContinuationSamePrompt ==
  [][\A p \in Calls, r \in Rounds :
       (r < MaxCont /\ turns[p].tool[r] \in ToolTerminal /\ turns'[p].tool[r] = "notified")
       => IF turns[p].tool[r] \in {"success", "error"}
          THEN /\ turns'[p].phase[r + 1] = "streaming"
               /\ turns[p].prompt[r] # 0
               /\ turns'[p].prompt[r + 1] = turns[p].prompt[r]
               /\ ~turns'[p].fresh[r + 1]
               /\ \A q \in Calls, n \in Rounds :
                    turns'[q].fresh[n] => (n = 0 /\ turns[q].fresh[n])
               /\ published' = {[by |-> turns[p].inst,
                                 ev |-> Event(turns[p].inst, "start", MsgOf(p, r + 1))]}
          ELSE /\ turns'[p].phase[r + 1] = "none"
               /\ turns'[p].prompt = turns[p].prompt
               /\ published' = {}]_vars

\* the response of a completed tool call streams as a continuation under the
\* prompt id of the turn, while the cancelled call of another turn was dropped
C18_Witness ==
  \E p, q \in Calls :
    /\ p # q
    /\ turns[p].tool[0] = "notified" /\ turns[p].phase[1] = "streaming"
    /\ turns[p].fresh[0] /\ ~turns[p].fresh[1]
    /\ turns[p].prompt[0] = NewPromptId(p, 0) /\ turns[p].prompt[1] = turns[p].prompt[0]
    /\ turns[q].tool[0] = "notified" /\ turns[q].phase[1] = "none"

\* C19: a republished thought event changes neither the queue of messages to
\* write nor the task; a start or finish event queues nothing; every other
\* event queues the message it converts to, keyed by conversation id and
\* message id, and the write that follows leaves that message stored once; no
\* message queued or stored comes from a thought, start or finish event
C19_ThoughtNotPersisted ==
  [][/\ \A e \in published' :
          IF e.ev.type = "thought" THEN localQueue' = localQueue /\ tasks' = tasks
          ELSE IF e.ev.type \in {"start", "finish"}
          THEN /\ localQueue' = localQueue
               /\ \A i \in Calls : [tasks'[i] EXCEPT !.status = "none"]
                                   = [tasks[i] EXCEPT !.status = "none"]
          ELSE /\ localQueue' = localQueue \cup {transformMessage(e.ev)}
               /\ transformMessage(e.ev).id = RespId(e.ev.msg_id, e.ev.type)
               /\ transformMessage(e.ev).conversation_id = e.ev.conversation_id
     /\ \A x \in localQueue \ localQueue' :
          Count(messages', x.conversation_id, x.id) = 1
     /\ \A x \in localQueue' \cup BagToSet(messages') :
          x.type \notin {"thought", "start", "finish"}]_vars

\* a thought event has just been republished by a task whose content message
\* of the same msg_id is stored; nothing is queued
C19_Witness ==
  \E e \in published :
    /\ e.ev.type = "thought"
    /\ localQueue = {}
    /\ Count(messages, e.ev.conversation_id, RespId(e.ev.msg_id, "content")) = 1
    /\ \A x \in BagToSet(messages) : x.type # "thought"

\* C20, as claimed: whenever the bootstrap of a task fails, a send is waiting
\* on it, so that the failure has a handler and is published as an error event
C20_Claimed ==
  [][\A i \in Calls :
       (tasks[i].boot = "pending" /\ tasks'[i].boot = "failed")
       => \E p \in Calls : calls[p].pc = "awaitBootstrap" /\ calls[p].task = i]_vars

\* C21, as claimed: create, sendMessage, confirmMessage, stop and reloadContext
\* never throw to the caller, and a stop for an id with no task returns the
\* failure envelope
C21_Claimed ==
  \A r \in replies :
    r.op \in {"create", "send", "confirm", "stop", "reload"} =>
      /\ r.res # "threw"
      /\ (r.op = "stop" /\ getTaskById(taskList, r.cid) = NoInst) => r.res = "fail"

\* the event e of this step does not come from a round that stop() aborted
Swallowed(e) ==
  \A p \in Calls, r \in Rounds :
    (Aborted(p, r) /\ turns[p].inst = e.by /\ turns'[p] # turns[p])
    => e.ev.msg_id \notin {MsgOf(p, r), ToolMsg(p, r)}

\* C22: a stop publishes nothing and leaves every status as it is; once stop
\* has aborted a round of a turn, no error event of that round is published;
\* an aborted send that had not started streaming starts nothing; and no step
\* sets the status of a task to error
C22_StopSwallowed ==
  [][/\ \A r \in replies' :
          r.op = "stop" => (published' = {} /\ tasks' = tasks /\ r.res = "ok")
     /\ \A e \in published' : e.ev.type = "error" => Swallowed(e)
     /\ \A p \in Calls, r \in Rounds :
          (Aborted(p, r) /\ turns'[p].phase[r] = "errored") => turns[p].phase[r] = "errored"
     /\ \A p \in Calls :
          (Aborted(p, 0) /\ turns[p].phase[0] = "atCommand" /\ turns'[p] # turns[p])
          => (turns'[p] = NoTurn /\ published' = {})
     /\ \A i \in Calls : tasks'[i].status # "error"]_vars

\* the turn whose stream stop aborted has finished: its finish event is
\* republished, its task is finished, and the store and the queue hold no error
\* message of the conversation
C22_Witness ==
  \E p \in Calls, e \in published :
    /\ Aborted(p, 0) /\ turns[p].phase[0] = "finished"
    /\ e.by = turns[p].inst /\ e.ev.type = "finish" /\ e.ev.msg_id = MsgOf(p, 0)
    /\ tasks[turns[p].inst].status = "finished"
    /\ \A x \in localQueue \cup BagToSet(messages) : x.type # "tips"

\* C23: stop leaves the registry, every task object and every in-flight build
\* as they were, and builds nothing when no task is registered; a send that
\* looks the task up afterwards gets the instance that was registered
C23_StopKeepsTask ==
  [][\A r \in replies' :
       r.op = "stop" =>
         /\ taskList' = taskList /\ tasks' = tasks /\ building' = building
         /\ pendingConfirm' = pendingConfirm
         /\ \A q \in Calls : turns'[q].inst = turns[q].inst
         /\ getTaskById(taskList', r.cid) = getTaskById(taskList, r.cid)]_vars

\* a send issued after a stop was forwarded to the task instance whose earlier
\* turn the stop aborted
C23_Witness ==
  \E p, q, s \in Calls :
    /\ p < s /\ s < q
    /\ calls[s] = DoneCall
    /\ Aborted(p, 0) /\ turns[p].inst # NoInst
    /\ turns[q].inst = turns[p].inst /\ turns[q].phase[0] = "streaming"
    /\ turns[q].signal[0] = "held"
    /\ getTaskById(taskList, "c1") = turns[p].inst
    /\ tasks[turns[p].inst].alive

\* C24, as claimed: when remove has returned true, no task is registered under
\* the id and no store holds the conversation or a message of it; and remove
\* returns true or false, never throws
C24_Claimed ==
  \A r \in replies :
    r.op = "remove" =>
      /\ r.res \in {"true", "false"}
      /\ r.res = "true" =>
           /\ getTaskById(taskList, r.cid) = NoInst
           /\ stored(convs, legacy, r.cid) = NoConv
           /\ \A x \in BagToSet(messages) : x.conversation_id # r.cid

\* C25: a reset with an id leaves no task registered under that id, kills the
\* task that was, and leaves the entries and the task objects of every other
\* id as they were; a reset without an id leaves the registry empty and every
\* task that was registered killed
C25_ResetScope ==
  [][\A r \in replies' :
       r.op = "reset" =>
         IF r.cid # "none"
         THEN /\ getTaskById(taskList', r.cid) = NoInst
              /\ \A i \in InstsOf(taskList, r.cid) : ~tasks'[i].alive
              /\ \A id \in Ids \ {r.cid} : Entries(taskList', id) = Entries(taskList, id)
              /\ \A i \in Calls \ InstsOf(taskList, r.cid) : tasks'[i] = tasks[i]
              /\ Len(taskList') = Len(taskList) - Len(Entries(taskList, r.cid))
         ELSE /\ taskList' = <<>>
              /\ \A i \in Registered(taskList) : ~tasks'[i].alive
              /\ \A i \in Calls \ Registered(taskList) : tasks'[i] = tasks[i]]_vars

\* a reset of one id has just killed its task while the task of the other id
\* stays registered and alive
C25_Witness ==
  \E r \in replies, i, j \in Calls :
    /\ r.op = "reset" /\ r.cid # "none"
    /\ tasks[i].id = r.cid /\ ~tasks[i].alive /\ tasks[i].boot # "none"
    /\ getTaskById(taskList, r.cid) = NoInst
    /\ tasks[j].id # r.cid /\ tasks[j].alive /\ getTaskById(taskList, tasks[j].id) = j

\* C26: a sendMessage enters the send of its task only from the copy of its
\* files, which it starts once it holds its task; a copy that fails leaves the
\* task unsent; and when the id has neither a live task nor a stored
\* conversation the request never reaches the copy and returns the failure
\* envelope, having stored no message and registered no task
C26_CopyThenSend ==
  [][\A p \in Calls :
       /\ (calls'[p].op = "send" /\ calls'[p].pc \in {"awaitBootstrap", "awaitSend", "localFinish"})
          => calls[p].pc \in {"resolved", "awaitBootstrap", "awaitSend", "localFinish"}
       /\ (calls'[p].op = "send" /\ calls'[p].pc = "resolved" /\ calls[p].pc # "resolved")
          => UNCHANGED <<messages, localQueue, turns>>
       /\ (calls[p].op = "send" /\ calls[p].pc = "resolved" /\ calls'[p].pc = "done"
           /\ tasks[calls[p].task].type = "gemini")
          => /\ \E r \in replies' : r.call = p /\ r.res = "threw"
             /\ UNCHANGED <<messages, tasks, turns>>
       /\ (calls[p].op = "send" /\ calls[p].pc = "awaitBuild" /\ calls'[p].pc = "done")
          => /\ \E r \in replies' : r.call = p /\ r.res = "fail"
             /\ stored(convs, legacy, calls[p].cid) = NoConv
             /\ UNCHANGED <<messages, localQueue, taskList, tasks>>
       /\ (Idle(p) /\ calls'[p].op = "send"
           /\ getTaskById(taskList, calls'[p].cid) = NoInst
           /\ stored(convs, legacy, calls'[p].cid) = NoConv)
          => calls'[p].pc = "awaitBuild"
       /\ (calls[p].op = "send" /\ calls[p].pc = "awaitBuild"
           /\ stored(convs, legacy, calls[p].cid) = NoConv)
          => calls'[p].pc \in {"awaitBuild", "done"}]_vars

\* a send on an id that has no task and no stored conversation has just
\* returned the failure envelope, nothing of that id being stored or built,
\* while a send on the other id has passed the copy of its files into its task
C26_Witness ==
  \E r \in replies, p \in Calls :
    /\ r.op = "send" /\ r.res = "fail"
    /\ stored(convs, legacy, r.cid) = NoConv
    /\ \A x \in BagToSet(messages) : x.conversation_id # r.cid
    /\ \A i \in Calls : tasks[i].id # r.cid
    /\ calls[p].op = "send" /\ calls[p].pc = "awaitBootstrap" /\ calls[p].cid # r.cid
    /\ Count(messages, calls[p].cid, calls[p].mid) = 1

\* C27: a create or createWithConversation that builds a task for an id under
\* which a task is registered leaves the new task as the only one registered
\* under the id, and leaves the prior task object, its turns and its pending
\* confirmations as they were: the prior task is neither stopped nor killed
C27_BuildReplaces ==
  [][\A r \in replies' :
       LET old == getTaskById(taskList, r.cid) IN
       (r.op \in {"create", "createWith"} /\ tasks'[r.call] # tasks[r.call])
       => /\ r.res = "ok"
          /\ getTaskById(taskList', r.cid) = r.call
          /\ InstsOf(taskList', r.cid) = {r.call}
          /\ tasks'[r.call].alive /\ tasks'[r.call].id = r.cid
          /\ \A i \in Calls \ {r.call} : tasks'[i] = tasks[i]
          /\ turns' = turns /\ pendingConfirm' = pendingConfirm
          /\ \A id \in Ids \ {r.cid} : Entries(taskList', id) = Entries(taskList, id)]_vars

\* a create has just registered its task under an id whose prior task, not
\* registered any more, is alive with a send waiting in it
C27_Witness ==
  \E r \in replies, i, p \in Calls :
    /\ r.op \in {"create", "createWith"} /\ r.res = "ok"
    /\ getTaskById(taskList, r.cid) = r.call /\ tasks[r.call].alive
    /\ i # r.call /\ tasks[i].id = r.cid /\ tasks[i].alive
    /\ calls[p].op = "send" /\ calls[p].task = i /\ calls[p].pc = "awaitBootstrap"

\* the conversations of either store that share the workspace of the given one
SameWorkspace(id) ==
  LET current == stored(convs, legacy, id)
  IN IF current = NoConv \/ current.workspace = "none" THEN {}
     ELSE {x \in Ids : /\ stored(convs, legacy, x) # NoConv
                       /\ stored(convs, legacy, x).workspace = current.workspace}

\* C28, as claimed: getAssociateConversation returns exactly the conversations
\* of either store whose workspace is that of the given conversation, and
\* none when the given conversation is in no store or has no workspace
C28_Claimed ==
  \A r \in replies : r.op = "getAssociated" => r.data = SameWorkspace(r.cid)

\* C29: get returns the copy of the structured store when it holds the
\* conversation and starts no migration; on a miss it returns the record of the
\* legacy store and leaves its migration under way, the structured store being
\* as it was when the request returns; it returns nothing when neither store
\* holds the conversation; getAssociateConversation reads the given
\* conversation in the same way; and no read changes either store
C29_ReadFallback ==
  [][\A r \in replies' :
       r.op \in {"get", "getAssociated"} =>
         /\ convs' = convs /\ legacy' = legacy
         /\ migrating \subseteq migrating'
         /\ (convs[r.cid] = NoConv /\ legacy[r.cid] # NoConv) => r.cid \in migrating'
         /\ \A id \in migrating' \ migrating : legacy[id] # NoConv
         /\ r.op = "get" =>
              /\ convs[r.cid] # NoConv
                 => (r.data = convs[r.cid] /\ r.res # "absent" /\ migrating' = migrating)
              /\ (convs[r.cid] = NoConv /\ legacy[r.cid] # NoConv)
                 => (r.data = legacy[r.cid] /\ r.res # "absent")
              /\ (convs[r.cid] = NoConv /\ legacy[r.cid] = NoConv)
                 => (r.data = NoConv /\ r.res = "absent")]_vars

\* get has just returned the legacy record of a conversation that the
\* structured store does not hold, its migration under way, while the two
\* stores hold different copies of another conversation
C29_Witness ==
  \E r \in replies, id \in Ids :
    /\ r.op = "get" /\ r.data = legacy[r.cid] /\ r.data # NoConv
    /\ convs[r.cid] = NoConv /\ r.cid \in migrating
    /\ id # r.cid /\ convs[id] # NoConv /\ legacy[id] # NoConv /\ convs[id] # legacy[id]

\* C30: the step in which a round of a turn fails (its stream throws or the
\* scheduler rejects) republishes one error event with the msg_id of the round;
\* completed tool calls that have responses and start no continuation
\* republish one error event; every error event leaves the registry and
\* every task object but the status of none as they were, its task registered
\* and alive, and queues the error message for the store
C30_FailureReported ==
  [][/\ \A p \in Calls, r \in Rounds :
          /\ (turns'[p].phase[r] = "errored" /\ turns[p].phase[r] # "errored")
             => published' = {[by |-> turns[p].inst,
                               ev |-> Event(turns[p].inst, "error", MsgOf(p, r))]}
          /\ (/\ r < MaxCont /\ turns[p].tool[r] \in {"success", "error"}
              /\ turns'[p].tool[r] = "notified" /\ turns'[p].phase[r + 1] = "none")
             => published' = {[by |-> turns[p].inst,
                               ev |-> Event(turns[p].inst, "error", ToolMsg(p, r))]}
     /\ \A e \in published' :
          e.ev.type = "error" =>
            /\ taskList' = taskList /\ tasks' = tasks /\ building' = building
            /\ tasks'[e.by].alive /\ getTaskById(taskList', e.ev.conversation_id) = e.by
            /\ transformMessage(e.ev) \in localQueue'
            /\ \A q \in Calls : turns'[q].inst = turns[q].inst]_vars

\* a turn of the task has just started streaming after another turn of the
\* same task failed and had its error event republished; the task is still
\* the one registered
C30_Witness ==
  \E p, q \in Calls, e \in published :
    /\ p # q /\ turns[p].inst = turns[q].inst /\ turns[p].inst # NoInst
    /\ e.by = turns[q].inst /\ e.ev.type = "start" /\ e.ev.msg_id = MsgOf(q, 0)
    /\ turns[q].phase[0] = "streaming" /\ turns[q].signal[0] = "held"
    /\ turns[p].phase[0] \in {"errored", "finished"}
    /\ transformMessage(Event(turns[p].inst, "error", MsgOf(p, 0))) \in localQueue
    /\ getTaskById(taskList, "c1") = turns[p].inst /\ tasks[turns[p].inst].alive

\* a tool call of a turn gets a new state from the scheduler in this step
Progress(p, r) ==
  /\ turns[p].tool[r] \in {"scheduled", "awaiting_approval", "executing"}
  /\ turns'[p].tool[r] \in {"awaiting_approval", "executing", "success", "error", "cancelled"}
  /\ turns'[p].tool[r] # turns[p].tool[r]

\* C31: every step in which the scheduler gives a tool call a new state, a
\* state that is not terminal as well as a terminal one, republishes exactly
\* one event, made by the task of that call for that call: a tool_group event,
\* or an error event when the mapping to the display failed
C31_UpdateReported ==
  [][\A p \in Calls, r \in Rounds :
       Progress(p, r)
       => \E t \in {"tool_group", "error"} :
            published' = {[by |-> turns[p].inst, ev |-> Event(turns[p].inst, t, ToolMsg(p, r))]}]_vars

\* a tool call has started executing, its update mapped to a tool_group event,
\* after the update of another call of the task failed to map
C31_Witness ==
  \E p, q \in Calls :
    /\ p # q /\ turns[p].inst # NoInst /\ turns[q].inst = turns[p].inst
    /\ turns[p].tool[0] = "executing"
    /\ published = {[by |-> turns[p].inst, ev |-> Event(turns[p].inst, "tool_group", ToolMsg(p, 0))]}
    /\ turns[q].tool[0] # "none"
    /\ transformMessage(Event(turns[q].inst, "error", ToolMsg(q, 0))) \in localQueue

\* the server named s is configured, enabled, connected and run over stdio
Qualifies(s) ==
  /\ processConfig.mcp.kind = "list"
  /\ \E k \in 1..Len(processConfig.mcp.list) :
       LET server == processConfig.mcp.list[k]
       IN /\ server.name = s /\ server.enabled
          /\ server.status = "connected" /\ server.transport = "stdio"

\* C32: the configuration an agent was started with holds a descriptor for
\* exactly the configured servers that are enabled, connected and run over
\* stdio (none when 'mcp.config' is unreadable or not a list), and holds the
\* image generation model exactly when it is stored with its switch on
C32_BootConfig ==
  \A i \in Calls :
    tasks[i].boot = "ok"
    => /\ \A s \in Servers :
            /\ agentConfig[i].mcpServers[s] # NoDescriptor <=> Qualifies(s)
            /\ Qualifies(s) => agentConfig[i].mcpServers[s].command = "run"
       /\ agentConfig[i].imageGenerationModel =
            (IF processConfig.image.kind = "model" /\ processConfig.image.switch
             THEN processConfig.image.name ELSE "none")

\* an agent started under a configuration of two enabled and connected
\* servers, one of them not run over stdio, and an image generation model that
\* is stored but switched off
C32_Witness ==
  \E i \in Calls :
    /\ tasks[i].boot = "ok" /\ tasks[i].alive
    /\ processConfig.mcp.kind = "list" /\ Len(processConfig.mcp.list) = 2
    /\ \A k \in 1..2 : processConfig.mcp.list[k].enabled
                         /\ processConfig.mcp.list[k].status = "connected"
    /\ processConfig.mcp.list[1].transport = "sse"
    /\ processConfig.mcp.list[2].transport = "stdio"
    /\ processConfig.image.kind = "model" /\ ~processConfig.image.switch
    /\ agentConfig[i].mcpServers[processConfig.mcp.list[2].name] # NoDescriptor
    /\ agentConfig[i].mcpServers[processConfig.mcp.list[1].name] = NoDescriptor
    /\ agentConfig[i].imageGenerationModel = "none"

\* the requests that take a step: those issued, resumed or answered by it
ActingCalls == {p \in Calls : calls'[p] # calls[p]}
\* the turns that take a step
ActingTurns == {p \in Calls : turns'[p] # turns[p]}

\* the conversation ids a step is addressed to: the ids named by the requests
\* that take the step, and the ids of the tasks whose turns take it
Addressed ==
  ({calls[p].cid : p \in ActingCalls} \cup {calls'[p].cid : p \in ActingCalls}
     \cup {r.cid : r \in replies'}
     \cup {tasks[turns[p].inst].id : p \in {q \in ActingTurns : turns[q].inst # NoInst}}
     \cup {tasks'[turns'[p].inst].id : p \in {q \in ActingTurns : turns'[q].inst # NoInst}})
  \ {"none"}

\* the tasks on whose behalf a step may republish: the tasks of its turns and
\* the tasks its requests hold or find registered
ActingTasks ==
  {turns[p].inst : p \in ActingTurns} \cup {calls[p].task : p \in ActingCalls}
    \cup {getTaskById(taskList, r.cid) : r \in {x \in replies' : x.cid # "none"}}

\* the messages of conversation id that are stored or queued to be stored
Persisted(msgs, queue, id) ==
  LET all == writeAll(msgs, queue)
  IN [x \in {y \in BagToSet(all) : y.conversation_id = id} |-> all[x]]

\* C33: a step addressed to some conversation ids (a request naming the id, or
\* a turn of the task of the id) leaves alone the registry entry, the status,
\* the pending confirmations and the persisted messages of every other id, and
\* every event it republishes carries the id of the task that emitted it, a
\* task of the step
C33_OtherIdsUntouched ==
  [][/\ \A b \in Ids \ Addressed :
          /\ Entries(taskList', b) = Entries(taskList, b)
          /\ \A i \in Calls :
               tasks[i].id = b
               => /\ tasks'[i].id = b /\ tasks'[i].alive = tasks[i].alive
                  /\ tasks'[i].status = tasks[i].status
                  /\ pendingConfirm'[i] = pendingConfirm[i]
          /\ Persisted(messages', localQueue', b) = Persisted(messages, localQueue, b)
     /\ \A e \in published' :
          /\ e.by \in ActingTasks \ {NoInst}
          /\ e.ev.conversation_id = tasks[e.by].id
          /\ e.ev.conversation_id \in Addressed]_vars

\* an event of a turn of one conversation has just been republished while the
\* registered task of the other conversation, its message stored, holds a tool
\* call awaiting approval
C33_Witness ==
  \E e \in published : \E j \in Calls :
    /\ tasks[j].alive /\ tasks[j].id # e.ev.conversation_id
    /\ getTaskById(taskList, tasks[j].id) = j
    /\ tasks[e.by].status = "running"
    /\ pendingConfirm[j] # {}
    /\ Count(messages, tasks[j].id, 1) = 1

\* C34: a reloadContext request returns an envelope and never throws; the
\* envelope is a failure exactly when no conversation is stored under the id
\* or the task resolved for it is not a gemini task, and then no task has its
\* history prefix set; otherwise it is a success, whether or not the
\* injection went through, and the only history prefix the step can set is
\* that of the task resolved for the id, from stored text of that conversation
C34_ReloadEnvelope ==
  [][\A r \in replies' :
       r.op = "reload"
       => LET p == r.call
              i == calls[p].task
          IN /\ r.res \in {"ok", "fail"}
             /\ r.res = "fail"
                <=> \/ calls[p].pc = "awaitBuild" /\ stored(convs, legacy, r.cid) = NoConv
                    \/ calls[p].pc = "resolved" /\ tasks[i].type # "gemini"
             /\ r.res = "fail" => tasks' = tasks
             /\ r.res = "ok"
                => /\ tasks[i].type = "gemini" /\ tasks[i].id = r.cid
                   /\ \A j \in Calls : j # i => tasks'[j] = tasks[j]
                   /\ tasks'[i] # tasks[i]
                      => /\ tasks'[i] = [tasks[i] EXCEPT !.armed = TRUE]
                         /\ HasText(messages, r.cid)]_vars

\* a reloadContext has just returned success although the history of the
\* conversation, which has stored text, did not reach its initialized task
C34_Witness ==
  \E r \in replies :
    /\ r.op = "reload" /\ r.res = "ok"
    /\ LET i == getTaskById(taskList, r.cid)
       IN /\ i # NoInst /\ tasks[i].alive /\ tasks[i].boot = "ok" /\ ~tasks[i].armed
          /\ HasText(messages, r.cid)

\* the phases of a round whose start event has been emitted and whose finish
\* event has not
Started == {"streaming", "streamed", "scheduling", "errored"}

\* the event of the given type that round r of the turn of call p emits
TurnEvent(p, r, type) ==
  IF turns[p].inst = NoInst
  THEN [by |-> NoInst, ev |-> [type |-> "none", msg_id |-> 0, conversation_id |-> "none"]]
  ELSE [by |-> turns[p].inst, ev |-> Event(turns[p].inst, type, MsgOf(p, r))]

\* the msg_ids of rounds (the uuids of tool_group events are not among them)
RoundMsgs == MsgIds \cup {100 + 10 * r + p : p \in Calls, r \in Rounds}

\* C35, step by step: a start event is emitted exactly as a round begins to
\* stream; a finish event is emitted exactly as a started round ends, after
\* which the round emits nothing more; an error event with the msg_id of a
\* round is emitted either by a started round, which then goes on to its
\* finish event, or by a send whose stream could not be opened, which leaves
\* no turn behind, so that neither start nor finish follows
C35_Steps ==
  \A p \in Calls, r \in Rounds :
    /\ (turns'[p].phase[r] = "streaming" /\ turns[p].phase[r] # "streaming")
       => /\ published' = {[by |-> turns'[p].inst,
                              ev |-> Event(turns'[p].inst, "start", 
                                           IF r = 0 THEN turns'[p].mid ELSE 100 + 10 * r + p)]}
          /\ turns[p].phase[r] = (IF r = 0 THEN "atCommand" ELSE "none")
    /\ (turns'[p].phase[r] = "finished" /\ turns[p].phase[r] # "finished")
       => /\ published' = {TurnEvent(p, r, "finish")}
          /\ turns[p].phase[r] \in Started
    /\ turns[p].phase[r] = "finished" => turns'[p].phase[r] = "finished"
    /\ turns[p].phase[r] = "errored" => turns'[p].phase[r] \in {"errored", "finished"}
    /\ (turns'[p].phase[r] = "errored" /\ turns[p].phase[r] # "errored")
       => /\ published' = {TurnEvent(p, r, "error")}
          /\ turns[p].phase[r] \in Started
    /\ (turns[p].phase[r] = "atCommand" /\ turns'[p].phase[r] = "none")
       => /\ published' \in {{}, {TurnEvent(p, r, "error")}}
          /\ turns'[p] = NoTurn

\* every event of a round comes from a step of that round
C35_Events ==
  \A e \in published' :
    /\ e.ev.type = "start"
       => \E p \in Calls, r \in Rounds :
            /\ turns'[p].phase[r] = "streaming" /\ turns[p].phase[r] # "streaming"
            /\ turns'[p].inst = e.by
    /\ e.ev.type = "finish"
       => \E p \in Calls, r \in Rounds :
            /\ turns'[p].phase[r] = "finished" /\ turns[p].phase[r] # "finished"
            /\ e = TurnEvent(p, r, "finish")
    /\ (e.ev.type = "error" /\ e.ev.msg_id \in RoundMsgs)
       => \E p \in Calls, r \in Rounds :
            /\ e = TurnEvent(p, r, "error")
            /\ \/ turns'[p].phase[r] = "errored" /\ turns[p].phase[r] # "errored"
               \/ turns[p].phase[r] = "atCommand" /\ turns'[p] = NoTurn

C36_Claimed ==
  \A i \in TwoCalls : (tasks[i].status = "pending") ~> (tasks[i].status \in Terminal)

\* C37, as claimed: in the step in which a send passes from the bridge into
\* its task (the file copy done, the task's send invoked), the task it holds
\* is alive and is the one registered under the conversation id
C37_Claimed ==
  [][\A p \in Calls :
       (/\ calls[p].op = "send" /\ calls[p].pc = "resolved"
        /\ calls'[p].pc \notin {"resolved", "done"})
       => /\ getTaskById(taskList, calls[p].cid) = calls[p].task
          /\ tasks[calls[p].task].alive]_vars

\* a send reaches the agent of task i in this step
ForwardedTo(i) == \E p \in Calls : turns[p].inst = NoInst /\ turns'[p].inst = i

\* the history of the conversation is injected into task i in this step: by
\* its bootstrap, or by a reloadContext that returns
InjectedInto(i) ==
  \/ tasks[i].boot = "pending" /\ tasks'[i].boot = "ok"
  \/ \E r \in replies' : r.op = "reload" /\ r.res = "ok" /\ calls[r.call].task = i

\* C38: the history prefix of a task is set only by an injection (bootstrap or
\* reloadContext) of stored text; the send that reaches the agent takes the
\* prefix, if there is one, and leaves none for the sends after it; and a
\* prefix that is set stays set until a send takes it or the task is killed
C38_PrefixOnce ==
  [][\A i \in Calls :
       /\ ForwardedTo(i) => ~prefixed(tasks'[i])
       /\ (prefixed(tasks'[i]) /\ ~prefixed(tasks[i]))
          => /\ InjectedInto(i) /\ ~ForwardedTo(i)
             /\ HasText(messages, tasks[i].id)
       /\ (prefixed(tasks[i]) /\ ~prefixed(tasks'[i]))
          => ForwardedTo(i) \/ ~tasks'[i].alive]_vars

\* a send is about to reach the agent of a task whose prefix a reloadContext
\* has set after an earlier send of the task ran its turn
C38_Witness ==
  \E i, p, q \in Calls :
    /\ tasks[i].alive /\ prefixed(tasks[i])
    /\ turns[p].inst = i /\ turns[p].phase[0] = "finished"
    /\ calls[q].pc = "awaitBootstrap" /\ calls[q].task = i
    /\ \E c \in Calls : calls[c].pc = "done" /\ c \notin {p, q}

\* C39: update returns true or false and never throws; it writes nothing when
\* it returns false; and an update that leaves the stored model as it was
\* (no model given, the stored model given, or the store refusing the update)
\* leaves the registry, every task, the pending confirmations and the turns
\* as they were
C39_UpdateKeepsTask ==
  [][\A r \in replies' :
       r.op = "update"
       => /\ r.res \in {"true", "false"}
          /\ r.res = "false" => convs' = convs
          /\ convs'[r.cid].model = convs[r.cid].model
             => /\ taskList' = taskList /\ tasks' = tasks
                /\ pendingConfirm' = pendingConfirm /\ turns' = turns]_vars

\* an update has just returned true and the task of the conversation, to
\* which a send is being passed, is still registered, alive and built with
\* the stored model
C39_Witness ==
  \E r \in replies :
    /\ r.op = "update" /\ r.res = "true"
    /\ LET i == getTaskById(taskList, r.cid)
       IN /\ i # NoInst /\ tasks[i].alive /\ tasks[i].model = convs[r.cid].model
          /\ \E p \in Calls : calls[p].op = "send" /\ calls[p].task = i

\* the workspace reads under way in a registry of calls, and those of them
\* whose controller has not been aborted
Reading(cs) == {p \in Calls : cs[p].op = "getWorkspace" /\ cs[p].pc = "reading"}

====
